---- MODULE Spec2Model ----
(***************************************************************************)
(* A model of creb, a terminal EPUB reader: the chapter markup processor   *)
(* (src/src/epub/processor.rs), the EPUB handler (src/src/epub/handler.rs),*)
(* the navigation state AppState (src/src/app.rs) and the main loop        *)
(* (src/src/main.rs).                                                      *)
(*                                                                         *)
(* Strings are sequences of characters (one-character TLA+ strings; a tag  *)
(* name is kept as one atom).  Chapter markup is a sequence of lexical     *)
(* tokens; Render gives the characters of a token sequence.                *)
(***************************************************************************)
EXTENDS Integers, Sequences, FiniteSets, TLC

\* ------------------------------------------------------------------ bounds
\* The scroll counter is followed up to MaxScroll steps away from 0 and from
\* usize::MAX: a scroll step that would lead further away is not taken.
MaxScroll == 13
\* Chapters of a book (spine length) range over 0..MaxChapters.
MaxChapters == 2
\* Arbitrary (possibly malformed) markup: token sequences up to this length.
MaxTokens == 2
\* Markup built of whole elements: up to this many elements in a row.
MaxElems == 3
\* Image references of a chapter handed to the image derivation.
MaxImages == 2
\* Texts handed to wrap_text: up to this many characters.
MaxText == 5
\* Widths handed to wrap_text: 0..MaxWidth.
MaxWidth == 3
\* References handed to the resolver: up to this many path segments.
MaxSegs == 3

\* usize is 64 bits wide.  A value below 2^63 is written as itself, a value
\* v of the upper half as v - 2^64 (the two's complement reading of its 64
\* bits): usize::MAX is -1, usize::MAX - 1 is -2.
UsizeMax == -1

\* ------------------------------------------------------------------ strings
WS == {" ", "\n"}

RECURSIVE TrimStart(_)
TrimStart(s) ==
  IF s # <<>> /\ Head(s) \in WS THEN TrimStart(Tail(s)) ELSE s

RECURSIVE TrimEnd(_)
TrimEnd(s) ==
  IF s # <<>> /\ s[Len(s)] \in WS THEN TrimEnd(SubSeq(s, 1, Len(s) - 1)) ELSE s

\* str::trim
Trim(s) == TrimEnd(TrimStart(s))

IsWhitespace(s) == \A i \in 1..Len(s) : s[i] \in WS

\* ------------------------------------------------------------------ markup
\* Lexical tokens of a chapter's markup.
\*   decl     <?xml version="1.0" encoding="utf-8"?>
\*   doctype  <!DOCTYPE html>
\*   start    <name> or <name xmlns="http://www.w3.org/1999/xhtml">
\*   end      </name>
\*   text     character data
\*   bad      a lone '<' : markup no XML parser accepts
Tok(k, name, text, xmlns) == [k |-> k, name |-> name, text |-> text, xmlns |-> xmlns]
DeclTok == Tok("decl", "", <<>>, FALSE)
DoctypeTok == Tok("doctype", "", <<>>, FALSE)
StartTok(n) == Tok("start", n, <<>>, FALSE)
StartNsTok(n) == Tok("start", n, <<>>, TRUE)
EndTok(n) == Tok("end", n, <<>>, FALSE)
TextTok(s) == Tok("text", "", s, FALSE)
BadTok == Tok("bad", "", <<>>, FALSE)

XhtmlNs == "xmlns=\"http://www.w3.org/1999/xhtml\""

\* The characters of one token.
RenderTok(t) ==
  CASE t.k = "decl" -> <<"<", "?xml", " ", "version=\"1.0\"", "?", ">">>
    [] t.k = "doctype" -> <<"<", "!DOCTYPE", " ", "html", ">">>
    [] t.k = "start" /\ t.xmlns -> <<"<", t.name, " ", XhtmlNs, ">">>
    [] t.k = "start" /\ ~t.xmlns /\ t.text = <<>> -> <<"<", t.name, ">">>
    [] t.k = "start" /\ ~t.xmlns /\ t.text # <<>> -> <<"<", t.name>> \o t.text \o <<">">>
    [] t.k = "end" -> <<"<", "/", t.name, ">">>
    [] t.k = "text" -> t.text
    [] t.k = "bad" -> <<"<">>

RECURSIVE Render(_)
Render(toks) ==
  IF toks = <<>> THEN <<>> ELSE RenderTok(Head(toks)) \o Render(Tail(toks))

\* ------------------------------------------------------------------ content.rs
Paragraph(text) == [kind |-> "Paragraph", level |-> 0, text |-> text]
Heading(level, text) == [kind |-> "Heading", level |-> level, text |-> text]
Image(path) == [kind |-> "Image", level |-> 0, text |-> path]
ImagePlaceholder(d) == [kind |-> "ImagePlaceholder", level |-> 0, text |-> d]

RenderableChapter(blocks) == [blocks |-> blocks]

\* ------------------------------------------------------------------ xml reader
\* The events xml::reader::EventReader yields for a document, in order.  The
\* reader stops at the first error.  StartDocument is yielded once, at the
\* first of: leading whitespace, the XML declaration, the DOCTYPE, the '<'
\* that opens a tag; a document that fails before any of them gives the
\* error alone.  One DOCTYPE is accepted, before the first element.
\* Multiple top-level elements are accepted; character data outside any
\* element is an error unless it is whitespace.  Character data inside an
\* element is held back until the markup that follows it is read, so
\* adjacent runs of character data are one event (Whitespace when all of it
\* is whitespace, Characters otherwise) and character data followed by the
\* end of input is lost in the error.
Ev(type, name, text) == [type |-> type, name |-> name, text |-> text]
ErrEv == Ev("Err", "", <<>>)

\* The reader's state: the open elements (innermost first), what has been
\* read of the document, and the character data held back.
ReaderInit ==
  [stack |-> <<>>, started |-> FALSE, doctype |-> FALSE, root |-> FALSE, text |-> <<>>]

\* The StartDocument event, when it has not been yielded yet.
StartDocument(rd) == IF rd.started THEN <<>> ELSE <<Ev("StartDocument", "", <<>>)>>

\* The event for the character data held back, yielded when markup follows.
HeldText(rd) ==
  IF rd.text = <<>> THEN <<>>
  ELSE <<Ev(IF IsWhitespace(rd.text) THEN "Whitespace" ELSE "Characters", "", rd.text)>>

Read(events, rd) == [events |-> events, rd |-> rd]

\* Character data outside any element: whitespace is skipped, and starts
\* the document when it is the first thing read; anything else is an error.
ReadRootText(text, rd) ==
  Read((IF Head(text) \in WS THEN StartDocument(rd) ELSE <<>>)
         \o (IF IsWhitespace(text) THEN <<>> ELSE <<ErrEv>>),
       [rd EXCEPT !.started = @ \/ Head(text) \in WS])

\* One tag or declaration, read in state rd with no character data held back.
ReadMarkup(t, first, rd) ==
  CASE t.k = "decl" ->
         IF first THEN Read(StartDocument(rd), [rd EXCEPT !.started = TRUE])
         ELSE Read(<<ErrEv>>, rd)
    [] t.k = "doctype" ->
         IF rd.stack = <<>> /\ ~rd.root /\ ~rd.doctype
         THEN Read(StartDocument(rd), [rd EXCEPT !.started = TRUE, !.doctype = TRUE])
         ELSE Read(<<ErrEv>>, rd)
    [] t.k = "start" ->
         Read(StartDocument(rd) \o <<Ev("StartElement", t.name, <<>>)>>,
              [rd EXCEPT !.started = TRUE, !.root = TRUE, !.stack = <<t.name>> \o @])
    [] t.k = "end" ->
         IF rd.stack # <<>> /\ Head(rd.stack) = t.name
         THEN Read(<<Ev("EndElement", t.name, <<>>)>>, [rd EXCEPT !.stack = Tail(@)])
         ELSE Read(<<ErrEv>>, rd)

\* A lone '<'.  Followed by character data (whitespace or the characters of
\* a name) it opens a tag that never ends: the held character data and
\* StartDocument are let out before the error.  At the end of input, or
\* followed by another '<', it is no token at all: the error comes alone and
\* the held character data is lost.
ReadBad(opens, rd) ==
  IF opens THEN Read(HeldText(rd) \o StartDocument(rd) \o <<ErrEv>>, rd)
  ELSE Read(<<ErrEv>>, rd)

\* One token: character data inside an element is added to what is held
\* back; markup first lets the held character data out.  A DOCTYPE inside an
\* element is refused before that: the error comes alone.
ReadToken(t, first, opens, rd) ==
  IF t.k = "text"
  THEN IF rd.stack = <<>> THEN ReadRootText(t.text, rd)
       ELSE Read(<<>>, [rd EXCEPT !.text = @ \o t.text])
  ELSE IF t.k = "bad" THEN ReadBad(opens, rd)
  ELSE IF t.k = "doctype" /\ rd.stack # <<>> THEN Read(<<ErrEv>>, rd)
  ELSE LET r == ReadMarkup(t, first, [rd EXCEPT !.text = <<>>])
       IN Read(HeldText(rd) \o r.events, r.rd)

\* The end of input: an error when an element is open or no element was read.
ReadEnd(rd) ==
  IF rd.stack # <<>> \/ ~rd.root THEN <<ErrEv>> ELSE <<Ev("EndDocument", "", <<>>)>>

\* The character after token i is character data.  The characters of the
\* model's character data are whitespace and the characters of names.
BeforeText(toks, i) == i < Len(toks) /\ toks[i + 1].k = "text"

RECURSIVE ReadFrom(_, _, _)
ReadFrom(toks, i, rd) ==
  IF i > Len(toks) THEN ReadEnd(rd)
  ELSE LET r == ReadToken(toks[i], i = 1, BeforeText(toks, i), rd)
       IN IF r.events # <<>> /\ r.events[Len(r.events)] = ErrEv
          THEN r.events
          ELSE r.events \o ReadFrom(toks, i + 1, r.rd)

\* A token that holds at least one character: every token but character
\* data of length 0.
HasCharacters(t) == t.k # "text" \/ t.text # <<>>

\* The reader reads the characters of the document: tokens without
\* characters are not there for it.
EventReader(toks) == ReadFrom(SelectSeq(toks, HasCharacters), 1, ReaderInit)

\* ------------------------------------------------------------------ processor.rs
HeadingNames == {"h1", "h2", "h3", "h4", "h5", "h6"}

HeadingLevelOf(name) ==
  CASE name = "h1" -> 1 [] name = "h2" -> 2 [] name = "h3" -> 3
    [] name = "h4" -> 4 [] name = "h5" -> 5 [] name = "h6" -> 6

RECURSIVE RemoveFirstDoctype(_)
RemoveFirstDoctype(toks) ==
  IF toks = <<>> THEN <<>>
  ELSE IF Head(toks).k = "doctype" THEN Tail(toks)
  ELSE <<Head(toks)>> \o RemoveFirstDoctype(Tail(toks))

\* content.replace(r#"xmlns="http://www.w3.org/1999/xhtml""#, ""): the blank
\* before the attribute stays inside the tag.
StripXmlns(toks) ==
  [i \in 1..Len(toks) |->
     IF toks[i].k = "start" /\ toks[i].xmlns
     THEN Tok("start", toks[i].name, <<" ">>, FALSE)
     ELSE toks[i]]

preprocess_html(html_content) == StripXmlns(RemoveFirstDoctype(html_content))

fallback_processing(html_content) ==
  RenderableChapter(<<Paragraph(Render(preprocess_html(html_content)))>>)

\* The loop state: blocks, current_text, heading_level.
ProcInit == [blocks |-> <<>>, current_text |-> <<>>, heading_level |-> 0]

\* OnStartElement without current_text.clear()
OnStartElement_keeps_buffer(st, name) ==
  IF name \in HeadingNames
  THEN [st EXCEPT !.heading_level = HeadingLevelOf(name)]
  ELSE st

OnStartElement(st, name) ==
  IF name \in HeadingNames
  THEN [st EXCEPT !.heading_level = HeadingLevelOf(name), !.current_text = <<>>]
  ELSE IF name = "p" THEN [st EXCEPT !.current_text = <<>>]
  ELSE st

\* OnEndElement without the trim of the emitted text
OnEndElement_untrimmed(st, name) ==
  IF name \in HeadingNames
  THEN [blocks |-> IF Trim(st.current_text) # <<>>
                   THEN Append(st.blocks, Heading(st.heading_level, st.current_text))
                   ELSE st.blocks,
        current_text |-> <<>>,
        heading_level |-> 0]
  ELSE IF name = "p"
  THEN [st EXCEPT !.blocks = IF Trim(st.current_text) # <<>>
                             THEN Append(st.blocks, Paragraph(st.current_text))
                             ELSE st.blocks,
                  !.current_text = <<>>]
  ELSE st

\* OnEndElement without the "if !current_text.trim().is_empty()" test
OnEndElement_emits_blank(st, name) ==
  IF name \in HeadingNames
  THEN [blocks |-> Append(st.blocks, Heading(st.heading_level, Trim(st.current_text))),
        current_text |-> <<>>,
        heading_level |-> 0]
  ELSE IF name = "p"
  THEN [st EXCEPT !.blocks = Append(st.blocks, Paragraph(Trim(st.current_text))),
                  !.current_text = <<>>]
  ELSE st

OnEndElement(st, name) ==
  IF name \in HeadingNames
  THEN [blocks |-> IF Trim(st.current_text) # <<>>
                   THEN Append(st.blocks, Heading(st.heading_level, Trim(st.current_text)))
                   ELSE st.blocks,
        current_text |-> <<>>,
        heading_level |-> 0]
  ELSE IF name = "p"
  THEN [st EXCEPT !.blocks = IF Trim(st.current_text) # <<>>
                             THEN Append(st.blocks, Paragraph(Trim(st.current_text)))
                             ELSE st.blocks,
                  !.current_text = <<>>]
  ELSE st

OnCharacters(st, text) == [st EXCEPT !.current_text = st.current_text \o text]

\* for event in parser { match event { ... } }: the loop state after the
\* events, or err when an Err event is met.
RECURSIVE ProcessEvents(_, _, _)
ProcessEvents(events, i, st) ==
  IF i > Len(events) THEN [err |-> FALSE, st |-> st]
  ELSE LET e == events[i] IN
    CASE e.type = "StartElement" -> ProcessEvents(events, i + 1, OnStartElement(st, e.name))
      [] e.type = "EndElement" -> ProcessEvents(events, i + 1, OnEndElement(st, e.name))
      [] e.type = "Characters" -> ProcessEvents(events, i + 1, OnCharacters(st, e.text))
      [] e.type = "Err" -> [err |-> TRUE, st |-> st]
      [] OTHER -> ProcessEvents(events, i + 1, st)

\* What process_chapter_html returns when the event loop ended as r: the
\* fallback on an Err event and when no block was pushed, the blocks otherwise.
BlocksOrFallback(html_content, r) ==
  IF r.err THEN fallback_processing(html_content)
  ELSE IF r.st.blocks = <<>> THEN fallback_processing(html_content)
  ELSE RenderableChapter(r.st.blocks)

\* process_chapter_html without the "if blocks.is_empty()" fallback
process_chapter_html_no_empty_check(html_content) ==
  LET processed_html == preprocess_html(html_content)
      r == ProcessEvents(EventReader(processed_html), 1, ProcInit)
  IN IF r.err THEN fallback_processing(html_content)
     ELSE RenderableChapter(r.st.blocks)

\* process_chapter_html whose Err arm keeps the blocks pushed so far in front
\* of the fallback paragraph
process_chapter_html_keeps_blocks(html_content) ==
  LET processed_html == preprocess_html(html_content)
      r == ProcessEvents(EventReader(processed_html), 1, ProcInit)
  IN IF r.err
     THEN RenderableChapter(r.st.blocks \o fallback_processing(html_content).blocks)
     ELSE IF r.st.blocks = <<>> THEN fallback_processing(html_content)
     ELSE RenderableChapter(r.st.blocks)

\* process_chapter_html that always takes the fallback
process_chapter_html_always_fallback(html_content) ==
  fallback_processing(html_content)

process_chapter_html(html_content) ==
  BlocksOrFallback(html_content,
                   ProcessEvents(EventReader(preprocess_html(html_content)), 1, ProcInit))

\* ------------------------------------------------------------------ paths
\* A path is the sequence of its segments; the empty sequence is the empty path.
None == [some |-> FALSE, v |-> <<>>]
Some(v) == [some |-> TRUE, v |-> v]

\* Path::components: "." segments vanish except a leading one.
RECURSIVE ComponentsFrom(_, _)
ComponentsFrom(p, i) ==
  IF i > Len(p) THEN <<>>
  ELSE IF i = 1 \/ p[i] # "." THEN <<p[i]>> \o ComponentsFrom(p, i + 1)
  ELSE ComponentsFrom(p, i + 1)

Components(p) == ComponentsFrom(p, 1)

\* Path::parent(), with unwrap_or_else(|| Path::new(""))
ParentOrEmpty(p) ==
  LET c == Components(p) IN IF c = <<>> THEN <<>> ELSE SubSeq(c, 1, Len(c) - 1)

\* Path::join of relative paths
Join(dir, rel) == dir \o rel

\* Path::file_name
FileName(p) ==
  LET c == Components(p) IN
  IF c = <<>> \/ c[Len(c)] \in {"..", "."} THEN None ELSE Some(c[Len(c)])

\* Path::ends_with: whole segments
EndsWith(p, suffix) ==
  LET c == Components(p)
      q == Components(suffix)
  IN Len(q) <= Len(c) /\ SubSeq(c, Len(c) - Len(q) + 1, Len(c)) = q

\* ------------------------------------------------------------------ handler.rs
\* EpubDoc: spine (one record per chapter: status, html, mime), resources
\* (key -> stored path), data (stored path -> bytes), the iteration order of
\* the resources map (a HashMap: fixed for one run of the program, any order
\* from run to run), and the current page.
\* A chapter's status says what reading it gives: "ok"; "missing", get_current()
\* is None; "badutf8", its bytes are not UTF-8.
\* get_current() returns (bytes, mime): current.1, stored as
\* current_chapter_path, is the chapter's MIME type.
get_chapter_count(h) == Len(h.doc.spine)

get_chapter_content_raw(h, chapter_index) ==
  IF chapter_index >= get_chapter_count(h)
  THEN [ok |-> FALSE, html |-> <<>>, h |-> h]
  ELSE LET ch == h.doc.spine[chapter_index + 1]
           h1 == [h EXCEPT !.doc.current = chapter_index]
           current == IF ch.status = "missing" THEN None ELSE Some(ch)
           h2 == IF current.some
                 THEN [h1 EXCEPT !.current_chapter_path = Some(ch.mime)]
                 ELSE h1
       IN IF current.some /\ ch.status = "ok"
          THEN [ok |-> TRUE, html |-> ch.html, h |-> h2]
          ELSE [ok |-> FALSE, html |-> <<>>, h |-> h2]

resolve_relative_path(h, relative_path) ==
  IF h.current_chapter_path.some
  THEN Some(Components(Join(ParentOrEmpty(h.current_chapter_path.v), relative_path)))
  ELSE None

\* std::fs::write(temp_dir.join(file_name), data)
WriteTemp(fs, file_name, data) ==
  IF file_name \in fs.unwritable
  THEN [ok |-> FALSE, fs |-> fs]
  ELSE [ok |-> TRUE,
        fs |-> [fs EXCEPT !.files =
                  [n \in DOMAIN fs.files \cup {file_name} |->
                     IF n = file_name THEN data ELSE fs.files[n]]]]

\* The body shared by both branches: read the data, name the file, write it.
Materialize(h, fs, stored_path, named_after) ==
  IF stored_path \notin DOMAIN h.doc.data THEN [ok |-> FALSE, path |-> <<>>, fs |-> fs]
  ELSE IF ~FileName(named_after).some THEN [ok |-> FALSE, path |-> <<>>, fs |-> fs]
  ELSE LET file_name == FileName(named_after).v
           w == WriteTemp(fs, file_name, h.doc.data[stored_path])
       IN IF w.ok THEN [ok |-> TRUE, path |-> <<"tmp", file_name>>, fs |-> w.fs]
          ELSE [ok |-> FALSE, path |-> <<>>, fs |-> fs]

RECURSIVE ScanKeys(_, _, _, _, _)
ScanKeys(h, fs, keys, resolved_path, resource_path) ==
  IF keys = <<>> THEN [ok |-> FALSE, path |-> <<>>, fs |-> fs]
  ELSE LET full_path == h.doc.resources[Head(keys)] IN
       IF EndsWith(full_path, resolved_path) \/ EndsWith(full_path, resource_path)
       THEN Materialize(h, fs, full_path, resource_path)
       ELSE ScanKeys(h, fs, Tail(keys), resolved_path, resource_path)

\* extract_resource without the direct lookup: the suffix scan only
extract_resource_scan_only(h, fs, resource_path) ==
  LET r == resolve_relative_path(h, resource_path)
      resolved_path == IF r.some THEN r.v ELSE resource_path
  IN ScanKeys(h, fs, h.doc.key_order, resolved_path, resource_path)

extract_resource(h, fs, resource_path) ==
  LET r == resolve_relative_path(h, resource_path)
      resolved_path == IF r.some THEN r.v ELSE resource_path
  IN IF resolved_path \in DOMAIN h.doc.resources
     THEN Materialize(h, fs, h.doc.resources[resolved_path], resolved_path)
     ELSE ScanKeys(h, fs, h.doc.key_order, resolved_path, resource_path)

\* ------------------------------------------------------------------ app.rs
\* usize arithmetic, on values written as above
\* a value of the upper half
IsHigh(a) == a < 0
\* usize "<" and "<="
ULt(a, b) == IF IsHigh(a) = IsHigh(b) THEN a < b ELSE IsHigh(b)
ULe(a, b) == a = b \/ ULt(a, b)

\* usize addition that wraps around
wrapping_add(a, b) == a + b

saturating_add(a, b) ==
  IF IsHigh(a) /\ IsHigh(b) THEN UsizeMax
  ELSE IF IsHigh(a) # IsHigh(b) /\ a + b >= 0 THEN UsizeMax
  ELSE a + b
saturating_sub(a, b) == IF ULt(a, b) THEN 0 ELSE a - b

\* PathBuf::from(""): the placeholder pushed for an image that was not extracted
EmptyPath == <<>>

\* blocks.iter().filter_map(|block| match block { Image(path) => Some(path), _ => None })
RECURSIVE ImagePathsOf(_)
ImagePathsOf(blocks) ==
  IF blocks = <<>> THEN <<>>
  ELSE IF Head(blocks).kind = "Image"
       THEN <<Head(blocks).text>> \o ImagePathsOf(Tail(blocks))
       ELSE ImagePathsOf(Tail(blocks))

\* One turn of "for image_path in &image_paths { match extract_resource ... }"
\* The loop body without the placeholder of the Err arm
PushExtracted_skip_failed(acc, r) ==
  IF r.ok THEN Append(acc, r.path) ELSE acc

PushExtracted(acc, r) ==
  IF r.ok THEN Append(acc, r.path) ELSE Append(acc, EmptyPath)

RECURSIVE ExtractImages(_, _, _, _)
ExtractImages(h, fs, image_paths, acc) ==
  IF image_paths = <<>> THEN [extracted_images |-> acc, fs |-> fs]
  ELSE LET r == extract_resource(h, fs, Head(image_paths))
       IN ExtractImages(h, r.fs, Tail(image_paths), PushExtracted(acc, r))

\* AppState::new.  The result carries the file system the call leaves behind.
AppState_new(epub_handler0, fs0, initial_chapter0) ==
  LET raw == get_chapter_content_raw(epub_handler0, initial_chapter0) IN
  IF ~raw.ok THEN [ok |-> FALSE, fs |-> fs0]
  ELSE LET chapter == process_chapter_html(raw.html)
           paths == ImagePathsOf(chapter.blocks)
           ex == ExtractImages(raw.h, fs0, paths, <<>>)
       IN [ok |-> TRUE,
           fs |-> ex.fs,
           self |-> [epub_handler |-> raw.h,
                     current_chapter_index |-> initial_chapter0,
                     renderable_chapter |-> chapter,
                     should_quit |-> FALSE,
                     scroll_position |-> 0,
                     image_paths |-> paths,
                     current_image_index |-> 0,
                     extracted_images |-> ex.extracted_images]]

\* load_current_chapter, step by step from its last statement to its first.
\* The assignments to self, and Ok(()): raw is the handler's answer, chapter
\* the processed chapter, paths its image paths, ex the outcome of the
\* extraction loop.
StoreChapter(self, raw, chapter, paths, ex) ==
  [ok |-> TRUE,
   fs |-> ex.fs,
   self |-> [self EXCEPT !.epub_handler = raw.h,
                         !.renderable_chapter = chapter,
                         !.image_paths = paths,
                         !.extracted_images = ex.extracted_images]]

\* The extraction loop over the chapter's image paths.
ExtractChapterImages(self, fs0, raw, chapter, paths) ==
  StoreChapter(self, raw, chapter, paths, ExtractImages(raw.h, fs0, paths, <<>>))

\* get_image_paths of the processed chapter.
ProcessChapter(self, fs0, raw, chapter) ==
  ExtractChapterImages(self, fs0, raw, chapter, ImagePathsOf(chapter.blocks))

\* get_chapter_content(...)? and process_chapter_html of the content.
LoadChapter(self, fs0, raw) ==
  IF ~raw.ok
  THEN [ok |-> FALSE, fs |-> fs0, self |-> [self EXCEPT !.epub_handler = raw.h]]
  ELSE ProcessChapter(self, fs0, raw, process_chapter_html(raw.html))

load_current_chapter(self, fs0) ==
  LoadChapter(self, fs0, get_chapter_content_raw(self.epub_handler, self.current_chapter_index))

\* After a successful load: scroll_position = 0; current_image_index = 0
\* The reset without "self.scroll_position = 0"
ResetCursor_keeps_scroll(self) == [self EXCEPT !.current_image_index = 0]

ResetCursor(self) == [self EXCEPT !.scroll_position = 0, !.current_image_index = 0]

\* next_chapter with the cursor reset moved out of the "if"
next_chapter_resets_at_boundary(self, fs0) ==
  IF self.current_chapter_index + 1 < get_chapter_count(self.epub_handler)
  THEN LET r == load_current_chapter(
                  [self EXCEPT !.current_chapter_index = self.current_chapter_index + 1], fs0)
       IN IF r.ok THEN [ok |-> TRUE, fs |-> r.fs, self |-> ResetCursor(r.self)] ELSE r
  ELSE [ok |-> TRUE, fs |-> fs0, self |-> ResetCursor(self)]

\* next_chapter with "<=" for "<" in its bound test
next_chapter_off_by_one(self, fs0) ==
  IF self.current_chapter_index + 1 <= get_chapter_count(self.epub_handler)
  THEN LET r == load_current_chapter(
                  [self EXCEPT !.current_chapter_index = self.current_chapter_index + 1], fs0)
       IN IF r.ok THEN [ok |-> TRUE, fs |-> r.fs, self |-> ResetCursor(r.self)] ELSE r
  ELSE [ok |-> TRUE, fs |-> fs0, self |-> self]

next_chapter(self, fs0) ==
  IF self.current_chapter_index + 1 < get_chapter_count(self.epub_handler)
  THEN LET r == load_current_chapter(
                  [self EXCEPT !.current_chapter_index = self.current_chapter_index + 1], fs0)
       IN IF r.ok THEN [ok |-> TRUE, fs |-> r.fs, self |-> ResetCursor(r.self)] ELSE r
  ELSE [ok |-> TRUE, fs |-> fs0, self |-> self]

previous_chapter(self, fs0) ==
  IF self.current_chapter_index > 0
  THEN LET r == load_current_chapter(
                  [self EXCEPT !.current_chapter_index = self.current_chapter_index - 1], fs0)
       IN IF r.ok THEN [ok |-> TRUE, fs |-> r.fs, self |-> ResetCursor(r.self)] ELSE r
  ELSE [ok |-> TRUE, fs |-> fs0, self |-> self]

scroll_down(self) == [self EXCEPT !.scroll_position = saturating_add(self.scroll_position, 1)]
scroll_up(self) == [self EXCEPT !.scroll_position = saturating_sub(self.scroll_position, 1)]
page_down(self, page_size) ==
  [self EXCEPT !.scroll_position = saturating_add(self.scroll_position, page_size)]
page_up(self, page_size) ==
  [self EXCEPT !.scroll_position = saturating_sub(self.scroll_position, page_size)]

\* self.extracted_images.get(self.current_image_index)
get_current_image_path(self) ==
  IF self.current_image_index < Len(self.extracted_images)
  THEN Some(self.extracted_images[self.current_image_index + 1])
  ELSE None

\* ------------------------------------------------------------------ renderer.rs
\* A string is the sequence of its characters.  str::len and str::split_at
\* count bytes: "é" stands for a character that takes two bytes in UTF-8.
Utf8Len(c) == IF c = "é" THEN 2 ELSE 1

\* str::len
RECURSIVE StrLen(_)
StrLen(s) == IF s = <<>> THEN 0 ELSE Utf8Len(Head(s)) + StrLen(Tail(s))

\* str::is_char_boundary
IsCharBoundary(s, mid) == \E k \in 0..Len(s) : StrLen(SubSeq(s, 1, k)) = mid

\* str::split_at: panics when mid is not on a character boundary
split_at(s, mid) ==
  IF IsCharBoundary(s, mid)
  THEN LET k == CHOOSE k \in 0..Len(s) : StrLen(SubSeq(s, 1, k)) = mid
       IN [panic |-> FALSE, first |-> SubSeq(s, 1, k), rest |-> SubSeq(s, k + 1, Len(s))]
  ELSE [panic |-> TRUE, first |-> <<>>, rest |-> <<>>]

\* str::split_whitespace
RECURSIVE SplitWhitespaceFrom(_, _, _, _)
SplitWhitespaceFrom(s, i, word, words) ==
  LET flushed == IF word = <<>> THEN words ELSE Append(words, word) IN
  IF i > Len(s) THEN flushed
  ELSE IF s[i] \in WS THEN SplitWhitespaceFrom(s, i + 1, <<>>, flushed)
  ELSE SplitWhitespaceFrom(s, i + 1, Append(word, s[i]), words)

split_whitespace(s) == SplitWhitespaceFrom(s, 1, <<>>, <<>>)

\* The state of wrap_text's loop, with how the call goes on: "ok"; "panic",
\* split_at panicked; "diverges", the splitting loop never ends (width 0:
\* every turn pushes an empty line and leaves remaining as it was).
WrapState(outcome, lines, current_line) ==
  [outcome |-> outcome, lines |-> lines, current_line |-> current_line]

\* "let (first_part, rest) = word.split_at(width); lines.push(first_part)"
\* followed by "while remaining.len() > width { split_at; push }" and
\* "if !remaining.is_empty() { current_line = remaining }".  It is entered
\* with word.len() > width and an empty current_line.
RECURSIVE SplitLoop(_, _, _)
SplitLoop(lines, remaining, width) ==
  IF ULt(width, StrLen(remaining))
  THEN IF width = 0 THEN WrapState("diverges", lines, <<>>)
       ELSE LET sp == split_at(remaining, width) IN
            IF sp.panic THEN WrapState("panic", lines, <<>>)
            ELSE SplitLoop(Append(lines, sp.first), sp.rest, width)
  ELSE WrapState("ok", lines, remaining)

\* The split of an over-long word without the while loop: one chunk, the
\* rest becomes the current line
HardSplit_once(lines, word, width) ==
  LET sp == split_at(word, width) IN
  IF sp.panic THEN WrapState("panic", lines, <<>>)
  ELSE WrapState("ok", Append(lines, sp.first), sp.rest)

HardSplit(lines, word, width) == SplitLoop(lines, word, width)

\* One turn of "for word in text.split_whitespace()"
WrapWord(st, word, width) ==
  LET test_line == IF st.current_line = <<>> THEN word
                   ELSE st.current_line \o <<" ">> \o word
  IN IF ULe(StrLen(test_line), width) THEN WrapState("ok", st.lines, test_line)
     ELSE IF st.current_line # <<>>
          THEN WrapState("ok", Append(st.lines, st.current_line), word)
     ELSE IF ULt(width, StrLen(word)) THEN HardSplit(st.lines, word, width)
     ELSE WrapState("ok", st.lines, word)

RECURSIVE WrapWords(_, _, _)
WrapWords(st, words, width) ==
  IF words = <<>> \/ st.outcome # "ok" THEN st
  ELSE WrapWords(WrapWord(st, Head(words), width), Tail(words), width)

\* wrap_text without "if !current_line.is_empty() { lines.push(current_line) }"
wrap_text_drops_last_line(text, width) ==
  LET st == WrapWords(WrapState("ok", <<>>, <<>>), split_whitespace(text), width)
  IN [outcome |-> st.outcome,
      lines |-> IF st.outcome # "ok" THEN <<>>
                ELSE IF st.lines = <<>> THEN <<(<<>>)>> ELSE st.lines]

\* wrap_text without "if lines.is_empty() { lines.push(String::new()) }"
wrap_text_no_empty_line(text, width) ==
  LET st == WrapWords(WrapState("ok", <<>>, <<>>), split_whitespace(text), width)
  IN [outcome |-> st.outcome,
      lines |-> IF st.outcome # "ok" THEN <<>>
                ELSE IF st.current_line # <<>> THEN Append(st.lines, st.current_line)
                ELSE st.lines]

\* wrap_text: the lines it returns, when it returns
wrap_text(text, width) ==
  LET st == WrapWords(WrapState("ok", <<>>, <<>>), split_whitespace(text), width)
      flushed == IF st.current_line # <<>> THEN Append(st.lines, st.current_line)
                 ELSE st.lines
  IN [outcome |-> st.outcome,
      lines |-> IF st.outcome # "ok" THEN <<>>
                ELSE IF flushed = <<>> THEN <<(<<>>)>> ELSE flushed]

\* `size.width as usize - 2`: with overflow checks (a debug build) a result
\* below zero is a panic; without them (a release build) it wraps.
wrapping_sub(a, b) == a - b
checked_sub(a, b) == IF ULt(a, b) THEN None ELSE Some(a - b)
ContentWidth(width, overflow_checks) ==
  IF overflow_checks THEN checked_sub(width, 2) ELSE Some(wrapping_sub(width, 2))

Min(a, b) == IF a <= b THEN a ELSE b
Repeat(c, n) == [i \in 1..n |-> c]

\* A content line is the sequence of its spans.
Line(spans) == spans
EmptyLine == Line(<< <<>> >>)

HeadingLine(level, text, width) ==
  LET prefix == CASE level = 1 -> Repeat("=", Min(5, width \div 4))
                  [] level = 2 -> Repeat("-", Min(3, width \div 6))
                  [] level \in 3..5 -> Repeat("#", level)
                  [] OTHER -> Repeat("#", 6)
      suffix == CASE level = 1 -> Repeat("=", Min(5, width \div 4))
                  [] level = 2 -> Repeat("-", Min(3, width \div 6))
                  [] OTHER -> <<>>
  IN Line(<< <<" ">>, prefix, <<" ">>, text, <<" ">>, suffix, <<" ">> >>)

\* The loop over the blocks of render_chapter, from block i on.  `widths`
\* collects the width of every wrap_text call.
RECURSIVE RenderBlocks(_, _, _, _, _)
RenderBlocks(blocks, i, width, overflow_checks, acc) ==
  IF i > Len(blocks) THEN acc
  ELSE LET block == blocks[i] IN
    CASE block.kind = "Paragraph" ->
           LET w == ContentWidth(width, overflow_checks) IN
           IF ~w.some THEN [acc EXCEPT !.outcome = "panic"]
           ELSE LET r == wrap_text(block.text, w.v)
                    called == [acc EXCEPT !.widths = Append(@, w.v)]
                IN IF r.outcome # "ok" THEN [called EXCEPT !.outcome = r.outcome]
                   ELSE RenderBlocks(blocks, i + 1, width, overflow_checks,
                          [called EXCEPT !.lines =
                             @ \o <<EmptyLine>> \o [k \in 1..Len(r.lines) |-> Line(<<r.lines[k]>>)]
                               \o <<EmptyLine>>])
      [] block.kind = "Heading" ->
           RenderBlocks(blocks, i + 1, width, overflow_checks,
             [acc EXCEPT !.lines = @ \o <<EmptyLine, HeadingLine(block.level, block.text, width),
                                         EmptyLine>>])
      [] block.kind = "Image" ->
           RenderBlocks(blocks, i + 1, width, overflow_checks,
             [acc EXCEPT !.lines = @ \o <<EmptyLine, Line(<<"[Image: ", block.text, "]">>),
                                         Line(<<"(Press 'i' when this line is visible to view the image)">>),
                                         EmptyLine>>])
      [] OTHER ->
           RenderBlocks(blocks, i + 1, width, overflow_checks,
             [acc EXCEPT !.lines = @ \o <<EmptyLine, Line(<<"[Image: ", block.text, "]">>),
                                         EmptyLine>>])

render_chapter(chapter, width, overflow_checks) ==
  RenderBlocks(chapter.blocks, 1, width, overflow_checks,
               [outcome |-> "ok", widths |-> <<>>, lines |-> <<>>])


\* ------------------------------------------------------------------ state
VARIABLES
  epub_handler,           \* AppState.epub_handler (the EpubHandler and its EpubDoc)
  current_chapter_index,  \* AppState.current_chapter_index
  renderable_chapter,     \* AppState.renderable_chapter
  should_quit,            \* AppState.should_quit
  scroll_position,        \* AppState.scroll_position
  image_paths,            \* AppState.image_paths
  current_image_index,    \* AppState.current_image_index
  extracted_images,       \* AppState.extracted_images
  fs,                     \* the temporary directory: files written, names that cannot be written
  phase,                  \* "args" before AppState::new, then "ready" or "failed"
  initial_chapter,        \* the initial_chapter argument of AppState::new
  last_op,                \* the operation called last
  last_arg,               \* its page_size argument (0 when it has none)
  last_result,            \* what it returned: "Ok", "Err", "Some", "None"
  pc,                     \* main: "start", "draw", "drawn", "exit_ok", "exit_err", "panic", "hang"
  raw_mode,               \* the terminal is in raw mode
  html_content,           \* the argument of process_chapter_html
  parsed,                 \* its result, once called
  wrap_args,              \* the arguments of wrap_text: text, width
  wrapped,                \* its outcome and result, once called
  relative_path,          \* the reference handed to the resolver
  resolved,               \* the lookup key made of it, once called
  second_handler,         \* a second EpubHandler opened on the same book
  lookups,                \* the extract_resource calls made so far, with what each wrote
  frame,                  \* the frame render_chapter draws into, and the chapter drawn
  rendered                \* the outcome of render_chapter, and the widths it gave wrap_text

appVars == <<epub_handler, current_chapter_index, renderable_chapter, should_quit,
             scroll_position, image_paths, current_image_index, extracted_images>>
callVars == <<last_op, last_arg, last_result>>
mainVars == <<pc, raw_mode>>
parseVars == <<html_content, parsed>>
extraVars == <<second_handler, lookups, frame, rendered>>
pureVars == <<wrap_args, wrapped, relative_path, resolved, extraVars>>
vars == <<appVars, fs, phase, initial_chapter, callVars, mainVars, parseVars, pureVars>>

Self ==
  [epub_handler |-> epub_handler,
   current_chapter_index |-> current_chapter_index,
   renderable_chapter |-> renderable_chapter,
   should_quit |-> should_quit,
   scroll_position |-> scroll_position,
   image_paths |-> image_paths,
   current_image_index |-> current_image_index,
   extracted_images |-> extracted_images]

SetSelf(s) ==
  /\ epub_handler' = s.epub_handler
  /\ current_chapter_index' = s.current_chapter_index
  /\ renderable_chapter' = s.renderable_chapter
  /\ should_quit' = s.should_quit
  /\ scroll_position' = s.scroll_position
  /\ image_paths' = s.image_paths
  /\ current_image_index' = s.current_image_index
  /\ extracted_images' = s.extracted_images

Called(op, arg, result) ==
  /\ last_op' = op
  /\ last_arg' = arg
  /\ last_result' = result

\* ------------------------------------------------------------------ inputs
\* Chapter markup used in books.
DocHeadings ==
  <<StartTok("h1"), TextTok(<<"a">>), EndTok("h1"),
    StartTok("p"), TextTok(<<" ", "b">>), EndTok("p")>>
DocPlain == <<TextTok(<<"a", " ", "b">>)>>

XhtmlMime == <<"application", "xhtml+xml">>

ChapterKinds ==
  { [status |-> "ok", html |-> DocHeadings, mime |-> XhtmlMime],
    [status |-> "ok", html |-> DocPlain, mime |-> XhtmlMime],
    [status |-> "missing", html |-> <<>>, mime |-> XhtmlMime],
    [status |-> "badutf8", html |-> <<>>, mime |-> XhtmlMime] }

Spines == UNION {[1..n -> ChapterKinds] : n \in 0..MaxChapters}

\* The resources of the book: key -> stored path, and stored path -> bytes.
CoverPath == <<"OEBPS", "images", "cover.png">>
APath == <<"OEBPS", "images", "a.png">>
GonePath == <<"OEBPS", "images", "gone.png">>
ResKeys == {<<"cover">>, <<"images", "a.png">>, <<"gone">>}
ResTable ==
  [k \in ResKeys |->
     CASE k = <<"cover">> -> CoverPath
       [] k = <<"images", "a.png">> -> APath
       [] k = <<"gone">> -> GonePath]
ResData ==
  [q \in {CoverPath, APath} |-> IF q = CoverPath THEN "cover-bytes" ELSE "a-bytes"]

KeyOrders ==
  {o \in [1..Cardinality(ResKeys) -> ResKeys] : \A i, j \in DOMAIN o : o[i] = o[j] => i = j}
DefaultOrder == CHOOSE o \in KeyOrders : TRUE

EpubDoc(spine, order) ==
  [spine |-> spine, resources |-> ResTable, data |-> ResData,
   key_order |-> order, current |-> 0]

\* EpubHandler::new
EpubHandler_new(doc) == [doc |-> doc, current_chapter_path |-> None]

EmptyFs == [files |-> [n \in {} |-> ""], unwritable |-> {}]

\* ui.size(): Rect::new(0, 0, 80, 24)
TermHeight == 24

\* The scroll positions the model follows: at most MaxScroll above 0 or at
\* most MaxScroll below usize::MAX.
Followed(n) == n \in -(MaxScroll + 1)..MaxScroll
PageSizes == {0, 2, TermHeight \div 2, UsizeMax}

AppIdle ==
  /\ current_chapter_index = 0
  /\ renderable_chapter = RenderableChapter(<<>>)
  /\ should_quit = FALSE
  /\ scroll_position = 0
  /\ image_paths = <<>>
  /\ current_image_index = 0
  /\ extracted_images = <<>>

CallIdle == last_op = "none" /\ last_arg = 0 /\ last_result = "none"
ParseIdle == html_content = <<>> /\ parsed = [done |-> FALSE, chapter |-> RenderableChapter(<<>>)]
ExtraIdle ==
  /\ second_handler = EpubHandler_new(EpubDoc(<<>>, DefaultOrder))
  /\ lookups = <<>>
  /\ frame = [width |-> 0, overflow_checks |-> FALSE, chapter |-> RenderableChapter(<<>>)]
  /\ rendered = [done |-> FALSE, outcome |-> "ok", widths |-> <<>>, lines |-> <<>>]
PureIdle ==
  /\ wrap_args = [text |-> <<>>, width |-> 0]
  /\ wrapped = [done |-> FALSE, outcome |-> "ok", lines |-> <<>>]
  /\ relative_path = <<>>
  /\ resolved = [done |-> FALSE, key |-> <<>>]
  /\ ExtraIdle

\* ------------------------------------------------------------------ AppState as called by any caller
Init ==
  /\ \E spine \in Spines : epub_handler = EpubHandler_new(EpubDoc(spine, DefaultOrder))
  /\ initial_chapter \in 0..MaxChapters
  /\ phase = "args"
  /\ fs = EmptyFs
  /\ AppIdle /\ CallIdle /\ ParseIdle /\ PureIdle
  /\ pc = "caller" /\ raw_mode = FALSE

Res(ok) == IF ok THEN "Ok" ELSE "Err"

New ==
  /\ phase = "args"
  /\ LET r == AppState_new(epub_handler, fs, initial_chapter) IN
       /\ IF r.ok THEN SetSelf(r.self) ELSE UNCHANGED appVars
       /\ fs' = r.fs
       /\ phase' = IF r.ok THEN "ready" ELSE "failed"
       /\ Called("new", 0, Res(r.ok))
  /\ UNCHANGED <<initial_chapter, mainVars, parseVars, pureVars>>

NextChapter ==
  /\ phase = "ready"
  /\ LET r == next_chapter(Self, fs) IN
       /\ SetSelf(r.self)
       /\ fs' = r.fs
       /\ Called("next_chapter", 0, Res(r.ok))
  /\ UNCHANGED <<phase, initial_chapter, mainVars, parseVars, pureVars>>

PreviousChapter ==
  /\ phase = "ready"
  /\ LET r == previous_chapter(Self, fs) IN
       /\ SetSelf(r.self)
       /\ fs' = r.fs
       /\ Called("previous_chapter", 0, Res(r.ok))
  /\ UNCHANGED <<phase, initial_chapter, mainVars, parseVars, pureVars>>

ScrollDown ==
  /\ phase = "ready"
  /\ Followed(scroll_down(Self).scroll_position)
  /\ SetSelf(scroll_down(Self))
  /\ Called("scroll_down", 0, "Ok")
  /\ UNCHANGED <<fs, phase, initial_chapter, mainVars, parseVars, pureVars>>

ScrollUp ==
  /\ phase = "ready"
  /\ Followed(scroll_up(Self).scroll_position)
  /\ SetSelf(scroll_up(Self))
  /\ Called("scroll_up", 0, "Ok")
  /\ UNCHANGED <<fs, phase, initial_chapter, mainVars, parseVars, pureVars>>

PageDown ==
  /\ phase = "ready"
  /\ \E page_size \in PageSizes :
       /\ Followed(page_down(Self, page_size).scroll_position)
       /\ SetSelf(page_down(Self, page_size))
       /\ Called("page_down", page_size, "Ok")
  /\ UNCHANGED <<fs, phase, initial_chapter, mainVars, parseVars, pureVars>>

PageUp ==
  /\ phase = "ready"
  /\ \E page_size \in PageSizes :
       /\ Followed(page_up(Self, page_size).scroll_position)
       /\ SetSelf(page_up(Self, page_size))
       /\ Called("page_up", page_size, "Ok")
  /\ UNCHANGED <<fs, phase, initial_chapter, mainVars, parseVars, pureVars>>

GetCurrentImagePath ==
  /\ phase = "ready"
  /\ Called("get_current_image_path", 0,
            IF get_current_image_path(Self).some THEN "Some" ELSE "None")
  /\ UNCHANGED <<appVars, fs, phase, initial_chapter, mainVars, parseVars, pureVars>>

Next ==
  \/ New
  \/ NextChapter
  \/ PreviousChapter
  \/ ScrollDown
  \/ ScrollUp
  \/ PageDown
  \/ PageUp
  \/ GetCurrentImagePath

Spec == Init /\ [][Next]_vars

\* ------------------------------------------------------------------ main.rs
\* pc: "start", before AppState::new; "draw", at the top of the loop;
\* "drawn", after the draw of this turn; "exit_ok" and "exit_err", main has
\* returned Ok or Err; "panic", the program has panicked; "hang", it is in a
\* loop that does not end.  frame.overflow_checks tells the build.
FrameWidths == 0..(MaxWidth + 2)

MainInit ==
  /\ \E spine \in Spines : epub_handler = EpubHandler_new(EpubDoc(spine, DefaultOrder))
  /\ initial_chapter \in 0..MaxChapters
  /\ phase = "args"
  /\ fs = EmptyFs
  /\ AppIdle /\ CallIdle /\ ParseIdle
  /\ wrap_args = [text |-> <<>>, width |-> 0]
  /\ wrapped = [done |-> FALSE, outcome |-> "ok", lines |-> <<>>]
  /\ relative_path = <<>>
  /\ resolved = [done |-> FALSE, key |-> <<>>]
  /\ second_handler = EpubHandler_new(EpubDoc(<<>>, DefaultOrder))
  /\ lookups = <<>>
  /\ \E overflow_checks \in BOOLEAN :
       frame = [width |-> 0, overflow_checks |-> overflow_checks,
                chapter |-> RenderableChapter(<<>>)]
  /\ rendered = [done |-> FALSE, outcome |-> "ok", widths |-> <<>>, lines |-> <<>>]
  /\ pc = "start" /\ raw_mode = FALSE

\* AppState::new(...)?; UI::new()?; ui.init()?  Terminal::new or
\* enable_raw_mode may fail (ui_ok = FALSE): main returns the error and raw
\* mode has not been switched on.
MainStart ==
  /\ pc = "start"
  /\ \E ui_ok \in BOOLEAN :
       LET r == AppState_new(epub_handler, fs, initial_chapter) IN
       /\ IF r.ok THEN SetSelf(r.self) ELSE UNCHANGED appVars
       /\ fs' = r.fs
       /\ phase' = IF r.ok THEN "ready" ELSE "failed"
       /\ pc' = IF r.ok /\ ui_ok THEN "draw" ELSE "exit_err"
       /\ raw_mode' = (r.ok /\ ui_ok)
       /\ Called("new", 0, Res(r.ok))
  /\ UNCHANGED <<initial_chapter, parseVars, pureVars>>

\* ui.draw(|frame| Renderer::render_chapter(...))?  The frame has the width
\* of the terminal at this moment.  render_chapter may panic or never
\* return; terminal.draw may return an error.
MainDraw ==
  /\ pc = "draw"
  /\ \E width \in FrameWidths :
       LET r == render_chapter(renderable_chapter, width, frame.overflow_checks)
       IN pc' \in CASE r.outcome = "panic" -> {"panic"}
                    [] r.outcome = "diverges" -> {"hang"}
                    [] OTHER -> {"drawn", "exit_err"}
  /\ UNCHANGED <<appVars, fs, phase, initial_chapter, callVars, raw_mode, parseVars, pureVars>>

\* if app_state.should_quit { break; }  ...  ui.restore()?; Ok(())
\* disable_raw_mode may fail: main returns the error, raw mode stays on.
MainBreak ==
  /\ pc = "drawn" /\ should_quit
  /\ \E restored \in BOOLEAN :
       /\ pc' = IF restored THEN "exit_ok" ELSE "exit_err"
       /\ raw_mode' = ~restored
  /\ UNCHANGED <<appVars, fs, phase, initial_chapter, callVars, parseVars, pureVars>>

Awaiting == pc = "drawn" /\ ~should_quit

\* ui.handle_events()? returns an error
MainEventError ==
  /\ Awaiting
  /\ pc' = "exit_err"
  /\ UNCHANGED <<appVars, fs, phase, initial_chapter, callVars, raw_mode, parseVars, pureVars>>

\* ui.handle_events()? returns Ok(None): no key within the poll time, or a
\* key that is bound to nothing
MainNoEvent ==
  /\ Awaiting
  /\ pc' = "draw"
  /\ UNCHANGED <<appVars, fs, phase, initial_chapter, callVars, raw_mode, parseVars, pureVars>>

MainQuit ==
  /\ Awaiting
  /\ SetSelf([Self EXCEPT !.should_quit = TRUE])
  /\ Called("quit", 0, "Ok")
  /\ pc' = "draw"
  /\ UNCHANGED <<fs, phase, initial_chapter, raw_mode, parseVars, pureVars>>

\* app_state.next_chapter()?
MainNextChapter ==
  /\ Awaiting
  /\ LET r == next_chapter(Self, fs) IN
       /\ SetSelf(r.self)
       /\ fs' = r.fs
       /\ Called("next_chapter", 0, Res(r.ok))
       /\ pc' = IF r.ok THEN "draw" ELSE "exit_err"
  /\ UNCHANGED <<phase, initial_chapter, raw_mode, parseVars, pureVars>>

\* app_state.previous_chapter()?
MainPreviousChapter ==
  /\ Awaiting
  /\ LET r == previous_chapter(Self, fs) IN
       /\ SetSelf(r.self)
       /\ fs' = r.fs
       /\ Called("previous_chapter", 0, Res(r.ok))
       /\ pc' = IF r.ok THEN "draw" ELSE "exit_err"
  /\ UNCHANGED <<phase, initial_chapter, raw_mode, parseVars, pureVars>>

MainScrollDown ==
  /\ Awaiting
  /\ Followed(scroll_down(Self).scroll_position)
  /\ SetSelf(scroll_down(Self))
  /\ Called("scroll_down", 0, "Ok")
  /\ pc' = "draw"
  /\ UNCHANGED <<fs, phase, initial_chapter, raw_mode, parseVars, pureVars>>

MainScrollUp ==
  /\ Awaiting
  /\ Followed(scroll_up(Self).scroll_position)
  /\ SetSelf(scroll_up(Self))
  /\ Called("scroll_up", 0, "Ok")
  /\ pc' = "draw"
  /\ UNCHANGED <<fs, phase, initial_chapter, raw_mode, parseVars, pureVars>>

\* let page_size = (ui.size().height / 2) as usize;
MainPageDown ==
  /\ Awaiting
  /\ Followed(page_down(Self, TermHeight \div 2).scroll_position)
  /\ SetSelf(page_down(Self, TermHeight \div 2))
  /\ Called("page_down", TermHeight \div 2, "Ok")
  /\ pc' = "draw"
  /\ UNCHANGED <<fs, phase, initial_chapter, raw_mode, parseVars, pureVars>>

MainPageUp ==
  /\ Awaiting
  /\ Followed(page_up(Self, TermHeight \div 2).scroll_position)
  /\ SetSelf(page_up(Self, TermHeight \div 2))
  /\ Called("page_up", TermHeight \div 2, "Ok")
  /\ pc' = "draw"
  /\ UNCHANGED <<fs, phase, initial_chapter, raw_mode, parseVars, pureVars>>

\* UserAction::ViewImage.  With no current image, or the empty path, nothing
\* is done.  Otherwise the image is drawn (render_image unwraps the opening
\* and decoding of the file, and ui.draw(...)? may fail) or a message is
\* shown (ui.clear_screen()? and ui.init()? may fail) until a key is
\* pressed.  The application state is not changed.
MainViewImage ==
  /\ Awaiting
  /\ Called("get_current_image_path", 0,
            IF get_current_image_path(Self).some THEN "Some" ELSE "None")
  /\ LET p == get_current_image_path(Self)
     IN pc' \in IF p.some /\ p.v # EmptyPath THEN {"draw", "exit_err", "panic"} ELSE {"draw"}
  /\ UNCHANGED <<appVars, fs, phase, initial_chapter, raw_mode, parseVars, pureVars>>

MainNext ==
  \/ MainStart
  \/ MainDraw
  \/ MainBreak
  \/ MainEventError
  \/ MainNoEvent
  \/ MainQuit
  \/ MainNextChapter
  \/ MainPreviousChapter
  \/ MainScrollDown
  \/ MainScrollUp
  \/ MainPageDown
  \/ MainPageUp
  \/ MainViewImage

SpecMain == MainInit /\ [][MainNext]_vars

\* ------------------------------------------------------------------ process_chapter_html on its inputs
\* Markup made of whole elements <name>text</name>, one after the other.
ElemNames == {"h1", "h2", "h6", "p", "div"}
ElemTexts == {<<>>, <<" ">>, <<"a">>, <<" ", "b", "\n">>}
Elems == [name : ElemNames, text : ElemTexts]

ElementToks(e) ==
  <<StartTok(e.name)>> \o (IF e.text = <<>> THEN <<>> ELSE <<TextTok(e.text)>>)
    \o <<EndTok(e.name)>>

RECURSIVE Flatten(_)
Flatten(es) == IF es = <<>> THEN <<>> ELSE ElementToks(Head(es)) \o Flatten(Tail(es))

ElemSeqs == UNION {[1..n -> Elems] : n \in 0..MaxElems}

\* Arbitrary token sequences, most of them malformed.
ArbToks ==
  {DeclTok, DoctypeTok, BadTok, StartNsTok("html"), EndTok("html"),
   StartTok("h3"), EndTok("h3"), StartTok("p"), EndTok("p"),
   TextTok(<<"a">>), TextTok(<<" ">>)}
ArbDocs == UNION {[1..n -> ArbToks] : n \in 0..MaxTokens}

\* "<h1>Chapter 1</h1><p>This is a paragraph.</p><h2>Section 1</h2><p>Another paragraph.</p>"
Scenario1 ==
  Flatten(<<[name |-> "h1", text |-> <<"Chapter", " ", "1">>],
            [name |-> "p", text |-> <<"This", " ", "is", " ", "a", " ", "paragraph.">>],
            [name |-> "h2", text |-> <<"Section", " ", "1">>],
            [name |-> "p", text |-> <<"Another", " ", "paragraph.">>]>>)

\* "<p>a<p>b</p>c</p>"
NestedParagraphs ==
  <<StartTok("p"), TextTok(<<"a">>), StartTok("p"), TextTok(<<"b">>), EndTok("p"),
    TextTok(<<"c">>), EndTok("p")>>

\* "<p>a</p><": a block is pushed before the reader reports an error.
BlockThenError == <<StartTok("p"), TextTok(<<"a">>), EndTok("p"), BadTok>>

\* "<div>a</div>": well-formed, no heading or paragraph element.
DivOnly == <<StartTok("div"), TextTok(<<"a">>), EndTok("div")>>

\* The shape of the chapter of test_realistic_html_processing:
\* <?xml ..?>\n<!DOCTYPE ..>\n<html xmlns=".."><body><h1>a</h1><p>b</p></body></html>
RealisticDoc ==
  <<DeclTok, TextTok(<<"\n">>), DoctypeTok, TextTok(<<"\n">>), StartNsTok("html"),
    StartTok("body"), StartTok("h1"), TextTok(<<"a">>), EndTok("h1"),
    StartTok("p"), TextTok(<<"b">>), EndTok("p"), EndTok("body"), EndTok("html")>>

\* Image-bearing elements: <img src=".."> and <image href="..">, with and
\* without the attribute.  A start tag's text field holds its attributes.
SrcCoverAttr == <<" ", "src=\"../images/cover.png\"">>
SrcAAttr == <<" ", "src=\"images/a.png\"">>
HrefCoverAttr == <<" ", "href=\"../images/cover.png\"">>
ImgTok(name, attr) == Tok("start", name, attr, FALSE)
ImageElems ==
  { <<ImgTok(n, a), EndTok(n)>> :
      n \in {"img", "image"}, a \in {<<>>, SrcCoverAttr, SrcAAttr, HrefCoverAttr} }
ImageDocs ==
  ImageElems
    \cup { <<StartTok("p"), TextTok(<<"a">>), EndTok("p")>> \o e : e \in ImageElems }
    \cup { <<StartTok("p"), TextTok(<<"a">>)>> \o e \o <<TextTok(<<"b">>), EndTok("p")>> :
             e \in ImageElems }

\* "<n1>a<n2>b</n2>z</n1>": an element nested in another, text on both sides.
NestNames == {"h1", "h3", "p", "span"}
NestedDoc(n1, n2, z) ==
  <<StartTok(n1), TextTok(<<"a">>), StartTok(n2), TextTok(<<"b">>), EndTok(n2),
    TextTok(z), EndTok(n1)>>
NestedDocs == {NestedDoc(n1, n2, z) : n1 \in NestNames, n2 \in NestNames, z \in {<<"c">>, <<" ">>}}

\* "<p>a</p><n>b" and "<n>b": the last element is never closed.
UnclosedDocs ==
  UNION { { <<StartTok("p"), TextTok(<<"a">>), EndTok("p"), StartTok(n), TextTok(<<"b">>)>>,
            <<StartTok(n), TextTok(<<"b">>)>> } : n \in {"h1", "p"} }

\* "<p>a a</p>" with its text in three tokens, and a document that keeps
\* two DOCTYPEs after preprocess_html has removed the first.
SplitTextDoc == <<StartTok("p"), TextTok(<<"a">>), TextTok(<<" ">>), TextTok(<<"a">>), EndTok("p")>>
TwoDoctypesLeft ==
  <<DoctypeTok, DoctypeTok, DoctypeTok, StartTok("p"), TextTok(<<"a">>), EndTok("p")>>

\* "<n1>a<n2></n2></n1>" and "<n1>a<n2> </n2>b</n1>": the inner element has
\* no text, or whitespace only.
EmptyInnerDocs ==
  UNION { { <<StartTok(n1), TextTok(<<"a">>), StartTok(n2), EndTok(n2), EndTok(n1)>>,
            <<StartTok(n1), TextTok(<<"a">>), StartTok(n2), TextTok(<<" ">>), EndTok(n2),
              TextTok(<<"b">>), EndTok(n1)>> } : n1 \in NestNames, n2 \in NestNames }

Docs ==
  ArbDocs \cup {Flatten(es) : es \in ElemSeqs} \cup {Scenario1, NestedParagraphs}
    \cup {BlockThenError, DivOnly, RealisticDoc} \cup ImageDocs
    \cup NestedDocs \cup UnclosedDocs \cup {SplitTextDoc, TwoDoctypesLeft}
    \cup EmptyInnerDocs

ParseInit ==
  /\ html_content \in Docs
  /\ parsed = [done |-> FALSE, chapter |-> RenderableChapter(<<>>)]
  /\ epub_handler = EpubHandler_new(EpubDoc(<<>>, DefaultOrder))
  /\ initial_chapter = 0
  /\ phase = "parse"
  /\ fs = EmptyFs
  /\ AppIdle /\ CallIdle /\ PureIdle
  /\ pc = "caller" /\ raw_mode = FALSE

ParseChapter ==
  /\ ~parsed.done
  /\ parsed' = [done |-> TRUE, chapter |-> process_chapter_html(html_content)]
  /\ UNCHANGED <<html_content, appVars, fs, phase, initial_chapter, callVars, mainVars,
                 pureVars>>

SpecParse == ParseInit /\ [][ParseChapter]_vars

\* ------------------------------------------------------------------ the image list of a chapter
\* The part of AppState::new and load_current_chapter that follows
\* process_chapter_html, applied to any RenderableChapter.
ImageRefs ==
  {<<"images", "cover.png">>, <<"images", "a.png">>,
   <<"images", "gone.png">>, <<"images", "none.png">>}
DeriveBlocks == {Paragraph(<<"a">>)} \cup {Image(r) : r \in ImageRefs}
DeriveChapters == UNION {[1..n -> DeriveBlocks] : n \in 0..MaxImages}

DeriveInit ==
  /\ \E order \in KeyOrders, path \in {None, Some(XhtmlMime)} :
       epub_handler =
         [EpubHandler_new(EpubDoc(<<>>, order)) EXCEPT !.current_chapter_path = path]
  /\ \E blocks \in DeriveChapters : renderable_chapter = RenderableChapter(blocks)
  /\ \E unwritable \in SUBSET {"cover.png"} : fs = [EmptyFs EXCEPT !.unwritable = unwritable]
  /\ phase = "chapter"
  /\ current_chapter_index = 0
  /\ should_quit = FALSE
  /\ scroll_position = 0
  /\ image_paths = <<>>
  /\ current_image_index = 0
  /\ extracted_images = <<>>
  /\ initial_chapter = 0
  /\ CallIdle /\ ParseIdle /\ PureIdle
  /\ pc = "caller" /\ raw_mode = FALSE

RebuildImages ==
  /\ phase = "chapter"
  /\ LET paths == ImagePathsOf(renderable_chapter.blocks)
         ex == ExtractImages(epub_handler, fs, paths, <<>>)
     IN /\ image_paths' = paths
        /\ extracted_images' = ex.extracted_images
        /\ fs' = ex.fs
  /\ phase' = "images"
  /\ UNCHANGED <<epub_handler, current_chapter_index, renderable_chapter, should_quit,
                 scroll_position, current_image_index, initial_chapter,
                 callVars, mainVars, parseVars, pureVars>>

SpecDerive == DeriveInit /\ [][RebuildImages]_vars

\* ------------------------------------------------------------------ wrap_text on its inputs
WrapChars == {"a", "b", " ", "é"}
\* "This is a test"
Scenario3Text ==
  <<"T", "h", "i", "s", " ", "i", "s", " ", "a", " ", "t", "e", "s", "t">>
WrapTexts == UNION {[1..n -> WrapChars] : n \in 0..MaxText} \cup {Scenario3Text}
WrapWidths == (0..MaxWidth) \cup {5}

WrapInit ==
  /\ wrap_args \in [text : WrapTexts, width : WrapWidths]
  /\ wrapped = [done |-> FALSE, outcome |-> "ok", lines |-> <<>>]
  /\ relative_path = <<>>
  /\ resolved = [done |-> FALSE, key |-> <<>>]
  /\ ExtraIdle
  /\ epub_handler = EpubHandler_new(EpubDoc(<<>>, DefaultOrder))
  /\ initial_chapter = 0
  /\ phase = "wrap"
  /\ fs = EmptyFs
  /\ AppIdle /\ CallIdle /\ ParseIdle
  /\ pc = "caller" /\ raw_mode = FALSE

WrapText ==
  /\ ~wrapped.done
  /\ LET r == wrap_text(wrap_args.text, wrap_args.width)
     IN wrapped' = [done |-> TRUE, outcome |-> r.outcome, lines |-> r.lines]
  /\ UNCHANGED <<extraVars, wrap_args, relative_path, resolved, appVars, fs, phase, initial_chapter,
                 callVars, mainVars, parseVars>>

SpecWrap == WrapInit /\ [][WrapText]_vars

\* ------------------------------------------------------------------ the resolver on its inputs
\* The lookup key of extract_resource:
\* self.resolve_relative_path(resource_path).unwrap_or_else(|_| resource_path.to_string())
resolved_path_of(h, resource_path) ==
  LET r == resolve_relative_path(h, resource_path) IN IF r.some THEN r.v ELSE resource_path

\* The chapter locations a handler may hold: none, the MIME type stored by
\* get_chapter_content_raw, and paths of chapter files.
ChapterPaths ==
  {None, Some(XhtmlMime), Some(<<"text", "ch1.xhtml">>), Some(<<"ch1.xhtml">>),
   Some(<<"OEBPS", "text", "ch1.xhtml">>)}
PathSegs == {"..", ".", "images", "cover.png"}
RelativePaths == UNION {[1..n -> PathSegs] : n \in 0..MaxSegs}

ResolveInit ==
  /\ \E path \in ChapterPaths :
       epub_handler =
         [EpubHandler_new(EpubDoc(<<>>, DefaultOrder)) EXCEPT !.current_chapter_path = path]
  /\ relative_path \in RelativePaths
  /\ resolved = [done |-> FALSE, key |-> <<>>]
  /\ ExtraIdle
  /\ wrap_args = [text |-> <<>>, width |-> 0]
  /\ wrapped = [done |-> FALSE, outcome |-> "ok", lines |-> <<>>]
  /\ initial_chapter = 0
  /\ phase = "resolve"
  /\ fs = EmptyFs
  /\ AppIdle /\ CallIdle /\ ParseIdle
  /\ pc = "caller" /\ raw_mode = FALSE

Resolve ==
  /\ ~resolved.done
  /\ resolved' = [done |-> TRUE, key |-> resolved_path_of(epub_handler, relative_path)]
  /\ UNCHANGED <<extraVars, relative_path, wrap_args, wrapped, appVars, fs, phase, initial_chapter,
                 callVars, mainVars, parseVars>>

SpecResolve == ResolveInit /\ [][Resolve]_vars

\* ------------------------------------------------------------------ extract_resource on its inputs
\* A book whose manifest holds an item with id "text" and two cover images
\* stored in different directories.  doc.resources maps manifest id to
\* stored path.
TextItemPath == <<"OEBPS", "text.xhtml">>
CoverAPath == <<"OEBPS", "a", "cover.png">>
CoverBPath == <<"OEBPS", "b", "cover.png">>
Book2Keys == {<<"text">>, <<"cover-a">>, <<"cover-b">>}
Book2Table ==
  [k \in Book2Keys |->
     CASE k = <<"text">> -> TextItemPath
       [] k = <<"cover-a">> -> CoverAPath
       [] k = <<"cover-b">> -> CoverBPath]
Book2Data ==
  [q \in {TextItemPath, CoverAPath, CoverBPath} |->
     CASE q = TextItemPath -> "text-bytes"
       [] q = CoverAPath -> "a-bytes"
       [] q = CoverBPath -> "b-bytes"]
Book2Orders ==
  {o \in [1..Cardinality(Book2Keys) -> Book2Keys] : \A i, j \in DOMAIN o : o[i] = o[j] => i = j}

Book2Doc(order) ==
  [spine |-> <<>>, resources |-> Book2Table, data |-> Book2Data,
   key_order |-> order, current |-> 0]

\* References found in a chapter's Image blocks.
ExtractRefs ==
  {<<"a", "cover.png">>, <<"b", "cover.png">>, <<"cover.png">>, <<"cover-a">>,
   <<".">>, <<"none.png">>}
ExtractChapters == UNION {[1..n -> {Image(r) : r \in ExtractRefs}] : n \in 0..MaxImages}
ExtractLocations == {None, Some(XhtmlMime), Some(<<"text", "ch1.xhtml">>)}

\* One extract_resource call as the caller sees it: the handler it was made
\* on, the reference, the result, and the bytes the call wrote.
LookupRecord(by, ref, r) ==
  [by |-> by, ref |-> ref, ok |-> r.ok, path |-> r.path,
   content |-> IF r.ok THEN r.fs.files[r.path[2]] ELSE ""]

\* load_current_chapter after self.extracted_images.clear(): the chapter and
\* its image_paths are set, the extraction loop is about to start.
ExtractInit ==
  /\ \E order \in Book2Orders, order2 \in Book2Orders, loc \in ExtractLocations :
       /\ epub_handler =
            [EpubHandler_new(Book2Doc(order)) EXCEPT !.current_chapter_path = loc]
       /\ second_handler =
            [EpubHandler_new(Book2Doc(order2)) EXCEPT !.current_chapter_path = loc]
  /\ \E blocks \in ExtractChapters : renderable_chapter = RenderableChapter(blocks)
  /\ image_paths = ImagePathsOf(renderable_chapter.blocks)
  /\ extracted_images = <<>>
  /\ lookups = <<>>
  /\ fs = EmptyFs
  /\ phase = IF image_paths = <<>> THEN "loaded" ELSE "extract"
  /\ current_chapter_index = 0
  /\ should_quit = FALSE
  /\ scroll_position = 0
  /\ current_image_index = 0
  /\ initial_chapter = 0
  /\ frame = [width |-> 0, overflow_checks |-> FALSE, chapter |-> RenderableChapter(<<>>)]
  /\ rendered = [done |-> FALSE, outcome |-> "ok", widths |-> <<>>, lines |-> <<>>]
  /\ wrap_args = [text |-> <<>>, width |-> 0]
  /\ wrapped = [done |-> FALSE, outcome |-> "ok", lines |-> <<>>]
  /\ relative_path = <<>>
  /\ resolved = [done |-> FALSE, key |-> <<>>]
  /\ CallIdle /\ ParseIdle
  /\ pc = "caller" /\ raw_mode = FALSE

\* One turn of "for image_path in &self.image_paths"; after the last turn
\* load_current_chapter returns Ok(()).
ExtractNext ==
  /\ phase = "extract"
  /\ LET k == Len(extracted_images) + 1
         r == extract_resource(epub_handler, fs, image_paths[k])
     IN /\ extracted_images' = PushExtracted(extracted_images, r)
        /\ fs' = r.fs
        /\ lookups' = Append(lookups, LookupRecord(1, image_paths[k], r))
        /\ phase' = IF k = Len(image_paths) THEN "loaded" ELSE "extract"
  /\ UNCHANGED <<epub_handler, current_chapter_index, renderable_chapter, should_quit,
                 scroll_position, image_paths, current_image_index, initial_chapter,
                 second_handler, frame, rendered, wrap_args, wrapped, relative_path,
                 resolved, callVars, mainVars, parseVars>>

\* After the load, one more extract_resource call for a reference of the
\* chapter, on the same handler or on the second one.
ExtractAgain ==
  /\ phase = "loaded"
  /\ Len(lookups) = Len(image_paths)
  /\ \E k \in 1..Len(image_paths), by \in {1, 2} :
       LET h == IF by = 1 THEN epub_handler ELSE second_handler
           r == extract_resource(h, fs, image_paths[k])
       IN /\ fs' = r.fs
          /\ lookups' = Append(lookups, LookupRecord(by, image_paths[k], r))
  /\ UNCHANGED <<appVars, phase, initial_chapter, second_handler, frame, rendered,
                 wrap_args, wrapped, relative_path, resolved, callVars, mainVars, parseVars>>

ExtractStep == ExtractNext \/ ExtractAgain

SpecExtract == ExtractInit /\ [][ExtractStep]_vars

\* ------------------------------------------------------------------
\* render_chapter on its own: a frame of some width, a build with or without
\* overflow checks, a chapter of a few blocks.
RenderBlockSet ==
  {Paragraph(<<"a">>), Paragraph(<<"a", "b", " ", "c">>), Paragraph(<<" ">>),
   Heading(1, <<"a">>), Heading(3, <<"a">>), Image(<<"a.png">>), ImagePlaceholder(<<"a">>)}
RenderChapters == UNION {[1..n -> RenderBlockSet] : n \in 1..2}

RenderInit ==
  /\ frame \in [width : FrameWidths, overflow_checks : BOOLEAN,
                chapter : {RenderableChapter(b) : b \in RenderChapters}]
  /\ rendered = [done |-> FALSE, outcome |-> "ok", widths |-> <<>>, lines |-> <<>>]
  /\ second_handler = EpubHandler_new(EpubDoc(<<>>, DefaultOrder))
  /\ lookups = <<>>
  /\ wrap_args = [text |-> <<>>, width |-> 0]
  /\ wrapped = [done |-> FALSE, outcome |-> "ok", lines |-> <<>>]
  /\ relative_path = <<>>
  /\ resolved = [done |-> FALSE, key |-> <<>>]
  /\ epub_handler = EpubHandler_new(EpubDoc(<<>>, DefaultOrder))
  /\ initial_chapter = 0
  /\ phase = "render"
  /\ fs = EmptyFs
  /\ AppIdle /\ CallIdle /\ ParseIdle
  /\ pc = "caller" /\ raw_mode = FALSE

RenderChapter ==
  /\ phase = "render"
  /\ ~rendered.done
  /\ LET r == render_chapter(frame.chapter, frame.width, frame.overflow_checks)
     IN rendered' = [done |-> TRUE, outcome |-> r.outcome, widths |-> r.widths,
                     lines |-> r.lines]
  /\ UNCHANGED <<second_handler, lookups, frame, wrap_args, wrapped, relative_path, resolved,
                 appVars, fs, phase, initial_chapter, callVars, mainVars, parseVars>>

SpecRender == RenderInit /\ [][RenderChapter]_vars

\* ================================================================== claims
ChapterCount == get_chapter_count(epub_handler)
IsNav(op) == op \in {"next_chapter", "previous_chapter"}

\* What a transition must leave alone when it changes nothing.
NavStateUnchanged ==
  /\ current_chapter_index' = current_chapter_index
  /\ scroll_position' = scroll_position
  /\ current_image_index' = current_image_index
  /\ renderable_chapter' = renderable_chapter
  /\ extracted_images' = extracted_images

\* C1: navigation atomicity.  A next_chapter or previous_chapter whose chapter
\* load fails leaves chapter_index, scroll_offset, image_index, the chapter
\* blocks and the image handles as they were before the call.
C1_FailedNavigationChangesNothing ==
  [][(IsNav(last_op') /\ last_result' = "Err") => NavStateUnchanged]_vars

\* C2: boundary transitions are no-ops.  next_chapter at the last chapter and
\* previous_chapter at chapter 0 return Ok, leave the navigation state, the
\* chapter and the image handles unchanged, and load nothing (the handler is
\* not touched).
C2_BoundaryIsNoOp ==
  [][(\/ last_op' = "next_chapter" /\ current_chapter_index + 1 >= ChapterCount
      \/ last_op' = "previous_chapter" /\ current_chapter_index = 0)
     => /\ last_result' = "Ok"
        /\ NavStateUnchanged
        /\ image_paths' = image_paths
        /\ epub_handler' = epub_handler
        /\ fs' = fs]_vars

\* A next_chapter at the last chapter has returned with a scroll position
\* that only a no-op can have left in place.
C2_Witness ==
  /\ last_op = "next_chapter" /\ last_result = "Ok"
  /\ current_chapter_index + 1 = ChapterCount
  /\ scroll_position > 0

\* The chapter the book holds at index i, parsed.
ParsedChapterAt(i) == process_chapter_html(epub_handler.doc.spine[i + 1].html)

\* C3: a successful next_chapter (previous_chapter) away from the boundary
\* moves chapter_index by exactly +1 (-1), replaces the chapter by the parse
\* of the new chapter's bytes, rebuilds the image handles for it, and leaves
\* scroll_offset = 0 and image_index = 0.
C3_SuccessfulTransition ==
  [][(\/ /\ last_op' = "next_chapter" /\ last_result' = "Ok"
         /\ current_chapter_index + 1 < ChapterCount
      \/ /\ last_op' = "previous_chapter" /\ last_result' = "Ok"
         /\ current_chapter_index > 0)
     => /\ current_chapter_index' =
             IF last_op' = "next_chapter" THEN current_chapter_index + 1
             ELSE current_chapter_index - 1
        /\ renderable_chapter' = ParsedChapterAt(current_chapter_index')
        /\ image_paths' = ImagePathsOf(renderable_chapter'.blocks)
        /\ Len(extracted_images') = Len(image_paths')
        /\ scroll_position' = 0
        /\ current_image_index' = 0]_vars

\* next_chapter has moved a session that started at chapter 0 to chapter 1,
\* whose markup differs from that of chapter 0.
C3_Witness ==
  /\ last_op = "next_chapter" /\ last_result = "Ok"
  /\ initial_chapter = 0 /\ current_chapter_index = 1
  /\ renderable_chapter = ParsedChapterAt(1)
  /\ ParsedChapterAt(1) # ParsedChapterAt(0)

\* C4: a scroll position or image selection never survives a chapter
\* boundary.  In every step of a session, if chapter_index changes then
\* scroll_offset = 0 and image_index = 0 after the step.
C4_CursorResetOnChapterChange ==
  [][(phase = "ready" /\ current_chapter_index' # current_chapter_index)
     => (scroll_position' = 0 /\ current_image_index' = 0)]_vars

\* C5: in every state of a constructed session 0 <= chapter_index <
\* chapter_count; AppState::new with an initial chapter >= chapter_count
\* returns an error and yields no session.
C5_ChapterIndexInRange ==
  /\ phase = "ready" => (0 <= current_chapter_index /\ current_chapter_index < ChapterCount)
  /\ (initial_chapter >= ChapterCount /\ phase # "args")
       => (phase = "failed" /\ last_op = "new" /\ last_result = "Err")

\* A load failure has been reported at the last chapter of a running session.
C5_Witness ==
  /\ phase = "ready"
  /\ last_op = "next_chapter" /\ last_result = "Err"
  /\ current_chapter_index + 1 = ChapterCount

\* usize values are compared as usize values (ULt, ULe).  a - n is below 0
\* exactly when a < n, and a + n is above usize::MAX exactly when the sum
\* taken modulo 2^64 is below a.
Max0Sub(a, n) == IF ULt(a, n) THEN 0 ELSE a - n
MinMaxAdd(a, n) == IF ULt(wrapping_add(a, n), a) THEN UsizeMax ELSE a + n

\* C6: scroll operations saturate.  scroll_up and page_up(n) set
\* scroll_offset to max(0, scroll_offset - step), scroll_down and page_down(n)
\* to min(MAX, scroll_offset + step), step being 1 or n; the offset never
\* leaves 0..MAX.
C6_ScrollSaturates ==
  [][/\ last_op' = "scroll_up" => scroll_position' = Max0Sub(scroll_position, 1)
     /\ last_op' = "page_up" => scroll_position' = Max0Sub(scroll_position, last_arg')
     /\ last_op' = "scroll_down" => scroll_position' = MinMaxAdd(scroll_position, 1)
     /\ last_op' = "page_down" => scroll_position' = MinMaxAdd(scroll_position, last_arg')
     /\ last_op' \in {"scroll_up", "page_up"} => ULe(scroll_position', scroll_position)
     /\ last_op' \in {"scroll_down", "page_down"} => ULe(scroll_position, scroll_position')]_vars

\* page_down by half a screen has stopped at usize::MAX.
C6_Witness ==
  /\ last_op = "page_down" /\ last_arg = TermHeight \div 2
  /\ scroll_position = UsizeMax

\* The positions of the Image blocks of a block sequence, in order.
RECURSIVE ImagePositions(_, _)
ImagePositions(blocks, i) ==
  IF i > Len(blocks) THEN <<>>
  ELSE IF blocks[i].kind = "Image" THEN <<i>> \o ImagePositions(blocks, i + 1)
  ELSE ImagePositions(blocks, i + 1)

\* C7: the image-handle list is derived from the chapter.  It has exactly one
\* entry per Image block of the chapter's blocks, in the order of the blocks;
\* the entry of an image that could not be resolved or written is the empty
\* path, at the position of that image.
C7_ImageHandlesDerived ==
  phase = "images" =>
    LET pos == ImagePositions(renderable_chapter.blocks, 1) IN
    /\ Len(extracted_images) = Len(pos)
    /\ Len(image_paths) = Len(pos)
    /\ \A k \in 1..Len(pos) :
         LET r == extract_resource(epub_handler, fs, renderable_chapter.blocks[pos[k]].text)
         IN /\ image_paths[k] = renderable_chapter.blocks[pos[k]].text
            /\ extracted_images[k] = IF r.ok THEN r.path ELSE EmptyPath

\* A chapter whose first image could not be extracted and whose second image
\* was: placeholder first, file second.
C7_Witness ==
  /\ phase = "images"
  /\ Len(extracted_images) = 2
  /\ extracted_images[1] = EmptyPath
  /\ extracted_images[2] # EmptyPath

\* C8: a chapter-load failure during navigation is not fatal.  After
\* next_chapter or previous_chapter reports it the main loop keeps running,
\* and whenever the program has exited the terminal is out of raw mode.
C8_LoadFailureNotFatal ==
  /\ (IsNav(last_op) /\ last_result = "Err") => pc \in {"draw", "drawn"}
  /\ (IsNav(last_op) /\ last_result = "Err" /\ pc \in {"exit_ok", "exit_err"}) => ~raw_mode

\* C9: process_chapter_html returns a chapter with at least one block for
\* every markup input, the empty one and malformed ones included.
C9_AtLeastOneBlock ==
  parsed.done => Len(parsed.chapter.blocks) >= 1

\* The empty input has been processed: one paragraph with empty text.
C9_Witness ==
  /\ parsed.done /\ html_content = <<>>
  /\ parsed.chapter.blocks = <<Paragraph(<<>>)>>

\* Markup that is a sequence of heading and paragraph elements, none nested,
\* each holding at most one run of character data.
RECURSIVE IsFlatMarkup(_)
IsFlatMarkup(toks) ==
  \/ toks = <<>>
  \/ /\ Len(toks) >= 2
     /\ toks[1].k = "start" /\ ~toks[1].xmlns /\ toks[1].text = <<>>
     /\ toks[1].name \in HeadingNames \cup {"p"}
     /\ \/ /\ toks[2] = EndTok(toks[1].name)
           /\ IsFlatMarkup(SubSeq(toks, 3, Len(toks)))
        \/ /\ Len(toks) >= 3
           /\ toks[2].k = "text"
           /\ toks[3] = EndTok(toks[1].name)
           /\ IsFlatMarkup(SubSeq(toks, 4, Len(toks)))

BlockFor(name, text) ==
  IF Trim(text) = <<>> THEN <<>>
  ELSE IF name = "p" THEN <<Paragraph(Trim(text))>>
  ELSE <<Heading(HeadingLevelOf(name), Trim(text))>>

\* One block per element of flat markup with non-blank text, in document order.
RECURSIVE ExpectedBlocks(_)
ExpectedBlocks(toks) ==
  IF toks = <<>> THEN <<>>
  ELSE IF toks[2].k = "text"
       THEN BlockFor(toks[1].name, toks[2].text) \o ExpectedBlocks(SubSeq(toks, 4, Len(toks)))
       ELSE ExpectedBlocks(SubSeq(toks, 3, Len(toks)))

\* C10: for markup that is a sequence of non-nested h1..h6 and p elements,
\* at least one of them with non-blank text, the blocks are exactly the
\* blocks of the elements with non-blank text, in document order:
\* Heading(n, trimmed text) for hn and Paragraph(trimmed text) for p; an
\* element whose trimmed text is empty gives no block.  Scenario 1 gives its
\* four blocks.  The buffer is cleared at every close: in "<p>a<p>b</p>c</p>"
\* the second close emits "c", not "bc".
C10_OneBlockPerElement ==
  /\ (parsed.done /\ IsFlatMarkup(html_content) /\ ExpectedBlocks(html_content) # <<>>)
       => parsed.chapter.blocks = ExpectedBlocks(html_content)
  /\ (parsed.done /\ html_content = Scenario1)
       => parsed.chapter.blocks =
            <<Heading(1, <<"Chapter", " ", "1">>),
              Paragraph(<<"This", " ", "is", " ", "a", " ", "paragraph.">>),
              Heading(2, <<"Section", " ", "1">>),
              Paragraph(<<"Another", " ", "paragraph.">>)>>
  /\ (parsed.done /\ html_content = NestedParagraphs)
       => parsed.chapter.blocks = <<Paragraph(<<"b">>), Paragraph(<<"c">>)>>

\* Three elements have been processed, the middle one blank, the last one
\* with text to trim: two blocks.
C10_Witness ==
  /\ parsed.done
  /\ html_content = Flatten(<<[name |-> "h2", text |-> <<"a">>],
                              [name |-> "p", text |-> <<" ">>],
                              [name |-> "p", text |-> <<" ", "b", "\n">>]>>)
  /\ parsed.chapter.blocks = <<Heading(2, <<"a">>), Paragraph(<<"b">>)>>

\* The structural pass of process_chapter_html over a chapter's markup.
StructuralParse(html) == ProcessEvents(EventReader(preprocess_html(html)), 1, ProcInit)

\* The reader reports an error somewhere in the event stream.
HasParseError(html) ==
  LET evs == EventReader(preprocess_html(html)) IN \E i \in DOMAIN evs : evs[i].type = "Err"

\* The structural pass ran to the end and pushed at least one block.
StructuralOk(html) == ~HasParseError(html) /\ StructuralParse(html).st.blocks # <<>>

\* C11: fallback.  Whenever the reader reports an error at any point of the
\* event stream, or the structural pass ends with no block, the result is
\* exactly one block, Paragraph(preprocessed raw text); blocks pushed before
\* the error are not part of it.
C11_FallbackIsSingleParagraph ==
  (parsed.done /\ ~StructuralOk(html_content))
    => parsed.chapter.blocks = <<Paragraph(Render(preprocess_html(html_content)))>>

\* "<p>a</p><" has been processed: the paragraph "a" pushed before the error
\* is gone, the one block is the raw text.
C11_Witness ==
  /\ parsed.done /\ html_content = BlockThenError
  /\ StructuralParse(html_content).st.blocks = <<Paragraph(<<"a">>)>>
  /\ parsed.chapter.blocks = <<Paragraph(<<"<", "p", ">", "a", "<", "/", "p", ">", "<">>)>>

\* The value of the source attribute of an image-bearing start tag: src for
\* img, href for image.
SourceAttr(t) ==
  IF t.name = "img" /\ t.text = SrcCoverAttr THEN Some(<<"..", "images", "cover.png">>)
  ELSE IF t.name = "img" /\ t.text = SrcAAttr THEN Some(<<"images", "a.png">>)
  ELSE IF t.name = "image" /\ t.text = HrefCoverAttr THEN Some(<<"..", "images", "cover.png">>)
  ELSE None

StripParent(path) == IF path # <<>> /\ Head(path) = ".." THEN Tail(path) ELSE path

\* Kind and path of the block an image-bearing start tag stands for.
ImageBlockFor(t) ==
  IF SourceAttr(t).some
  THEN [kind |-> "Image", text |-> StripParent(SourceAttr(t).v)]
  ELSE [kind |-> "ImagePlaceholder", text |-> <<>>]

KindAndPath(b) ==
  [kind |-> b.kind, text |-> IF b.kind = "ImagePlaceholder" THEN <<>> ELSE b.text]

\* The blocks of a document of ImageDocs: the element alone, after a closed
\* paragraph, or inside a paragraph (the image block comes first: it is
\* emitted at its start tag, the paragraph at its end tag).
ExpectedImageDoc(toks) ==
  CASE Len(toks) = 2 -> <<ImageBlockFor(toks[1])>>
    [] Len(toks) = 5 -> <<KindAndPath(Paragraph(<<"a">>)), ImageBlockFor(toks[4])>>
    [] Len(toks) = 6 -> <<ImageBlockFor(toks[3]), KindAndPath(Paragraph(<<"a", "b">>))>>

\* C12: at the start tag of an img or image element exactly one block is
\* emitted at that document position: Image(source attribute value with a
\* leading "../" stripped) when the src (img) or href (image) attribute is
\* present, ImagePlaceholder when it is absent.
C12_ImageTagEmitsBlock ==
  (parsed.done /\ html_content \in ImageDocs)
    => /\ Len(parsed.chapter.blocks) = Len(ExpectedImageDoc(html_content))
       /\ \A i \in 1..Len(parsed.chapter.blocks) :
            KindAndPath(parsed.chapter.blocks[i]) = ExpectedImageDoc(html_content)[i]

IsTextBlock(b) == b.kind \in {"Paragraph", "Heading"}

\* C13 as stated: no Paragraph or Heading block returned for any input, the
\* fallback included, has text that is empty after trimming.
C13_NoBlankTextAnyInput ==
  parsed.done =>
    \A i \in 1..Len(parsed.chapter.blocks) :
      IsTextBlock(parsed.chapter.blocks[i]) => Trim(parsed.chapter.blocks[i].text) # <<>>

\* C13 amended: when the structural pass succeeds with at least one block, no
\* Paragraph or Heading block has text that is empty after trimming, and the
\* text is stored trimmed.  (The fallback paragraph holds the raw text as it
\* is: empty for empty input.)
C13_NoBlankTextStructural ==
  (parsed.done /\ StructuralOk(html_content)) =>
    \A i \in 1..Len(parsed.chapter.blocks) :
      LET b == parsed.chapter.blocks[i] IN
      IsTextBlock(b) => (Trim(b.text) # <<>> /\ Trim(b.text) = b.text)

\* A blank paragraph followed by a heading has been processed: the blank
\* paragraph gave no block.
C13_Witness ==
  /\ parsed.done
  /\ html_content = Flatten(<<[name |-> "p", text |-> <<" ">>],
                              [name |-> "h1", text |-> <<"a">>]>>)
  /\ parsed.chapter.blocks = <<Heading(1, <<"a">>)>>

Contains(s, c) == \E i \in 1..Len(s) : s[i] = c

\* The markup begins with an XML declaration followed, after optional
\* whitespace, by a DOCTYPE declaration.
BeginsWithDeclDoctype(toks) ==
  /\ Len(toks) >= 2 /\ toks[1] = DeclTok
  /\ \/ toks[2] = DoctypeTok
     \/ /\ Len(toks) >= 3 /\ toks[2].k = "text" /\ IsWhitespace(toks[2].text)
        /\ toks[3] = DoctypeTok

\* C14: for markup that begins with an XML declaration followed by a
\* DOCTYPE declaration, the output of preprocess_html contains no "<?xml",
\* no "<!DOCTYPE" and no xmlns="http://www.w3.org/1999/xhtml".
C14_PreprocessStripsProlog ==
  (parsed.done /\ BeginsWithDeclDoctype(html_content)) =>
    LET out == Render(preprocess_html(html_content)) IN
    /\ ~Contains(out, "?xml")
    /\ ~Contains(out, "!DOCTYPE")
    /\ ~Contains(out, XhtmlNs)

\* Markup an XML reader accepts as it stands.
WellFormed(toks) ==
  LET evs == EventReader(toks) IN \A i \in DOMAIN evs : evs[i].type # "Err"

MarkupFree(blocks) ==
  \A i \in 1..Len(blocks) :
    IsTextBlock(blocks[i]) => (~Contains(blocks[i].text, "<") /\ ~Contains(blocks[i].text, ">"))

\* C15 as stated: for well-formed markup the text of every Heading and
\* Paragraph block is free of "<" and ">", also when the document has no
\* h1..h6 or p element.
C15_TextIsMarkupFree ==
  (parsed.done /\ WellFormed(html_content)) => MarkupFree(parsed.chapter.blocks)

\* A start or end tag of a heading or a paragraph.
IsTextTag(t) == t.k \in {"start", "end"} /\ t.name \in HeadingNames \cup {"p"}

\* Some h1..h6 or p end tag closes non-blank text: character data that is
\* not all whitespace lies before it, with no h1..h6 or p tag in between.
ClosesText(toks) ==
  \E i \in DOMAIN toks, j \in DOMAIN toks :
    /\ i < j
    /\ toks[i].k = "text" /\ ~IsWhitespace(toks[i].text)
    /\ toks[j].k = "end" /\ IsTextTag(toks[j])
    /\ \A k \in (i + 1)..(j - 1) : ~IsTextTag(toks[k])

\* C15 amended: for well-formed markup in which some h1..h6 or p end tag
\* closes non-blank text, the text of every Heading and Paragraph block holds
\* no tag: no "<" and no ">" of the markup.  For well-formed markup with no
\* such end tag the result is the fallback paragraph, tags included.
C15_TextIsMarkupFreeStructural ==
  (parsed.done /\ WellFormed(html_content)) =>
    IF ClosesText(html_content)
    THEN MarkupFree(parsed.chapter.blocks)
    ELSE parsed.chapter = fallback_processing(html_content)

\* The chapter with prolog, html, body, h1 and p has been processed: two
\* blocks of character data.
C15_Witness ==
  /\ parsed.done /\ html_content = RealisticDoc
  /\ WellFormed(html_content) /\ ClosesText(html_content)
  /\ parsed.chapter.blocks = <<Heading(1, <<"a">>), Paragraph(<<"b">>)>>

\* wrap_text has returned its lines for a width of at least 1.
Wrapped == wrapped.done /\ wrapped.outcome = "ok" /\ wrap_args.width >= 1

WrapTokens == split_whitespace(wrap_args.text)

\* C16: for every text and every width w >= 1, every line wrap_text returns
\* has length <= w (counted in characters, which the byte count is never
\* below); a token longer than w is split whether or not the current line is
\* empty when the token is reached.
C16_LinesFitWidth ==
  Wrapped => \A i \in 1..Len(wrapped.lines) : Len(wrapped.lines[i]) <= wrap_args.width

\* The tokens of a text, separated by single spaces.
RECURSIVE JoinTokens(_)
JoinTokens(tokens) ==
  IF tokens = <<>> THEN <<>>
  ELSE IF Len(tokens) = 1 THEN tokens[1]
  ELSE tokens[1] \o <<" ">> \o JoinTokens(Tail(tokens))

\* The lines joined, line i and line i + 1 by glue[i]: a space, or nothing
\* where the break was introduced by a hard split.
RECURSIVE JoinLines(_, _, _)
JoinLines(lines, glue, i) ==
  IF i > Len(lines) THEN <<>>
  ELSE IF i = Len(lines) THEN lines[i]
  ELSE lines[i] \o glue[i] \o JoinLines(lines, glue, i + 1)

\* C17: wrap_text loses, duplicates and reorders nothing.  For every text
\* and width w >= 1 for which it returns, the lines joined by single
\* spaces, with the breaks introduced by hard splits (after a chunk of
\* exactly w bytes) removed, are the tokens of the text in order, separated
\* by single spaces.
C17_WrapPreservesText ==
  Wrapped =>
    \E glue \in [1..(Len(wrapped.lines) - 1) -> {<<>>, <<" ">>}] :
      /\ \A i \in DOMAIN glue :
           glue[i] = <<>> => StrLen(wrapped.lines[i]) = wrap_args.width
      /\ JoinLines(wrapped.lines, glue, 1) = JoinTokens(WrapTokens)

\* "aaa b" has been wrapped to width 2: a hard split, its remainder, and a
\* token after it.
C17_Witness ==
  /\ Wrapped
  /\ wrap_args = [text |-> <<"a", "a", "a", " ", "b">>, width |-> 2]
  /\ wrapped.lines = << <<"a", "a">>, <<"a">>, <<"b">> >>

CeilDiv(n, d) == (n + d - 1) \div d

RECURSIVE Concat(_)
Concat(ss) == IF ss = <<>> THEN <<>> ELSE Head(ss) \o Concat(Tail(ss))

\* C18: for a text that is a single token of length L > w (w >= 1, length
\* in bytes as str::len gives it), wrap_text, when it returns, returns
\* exactly ceil(L / w) lines, each of length exactly w except possibly the
\* last, and their concatenation is the token.
C18_LongTokenChunks ==
  (Wrapped /\ Len(WrapTokens) = 1 /\ StrLen(WrapTokens[1]) > wrap_args.width) =>
    LET n == Len(wrapped.lines) IN
    /\ n = CeilDiv(StrLen(WrapTokens[1]), wrap_args.width)
    /\ \A i \in 1..(n - 1) : StrLen(wrapped.lines[i]) = wrap_args.width
    /\ StrLen(wrapped.lines[n]) \in 1..wrap_args.width
    /\ Concat(wrapped.lines) = WrapTokens[1]

\* "aaaaa" has been wrapped to width 2: three lines, the last one short.
C18_Witness ==
  /\ Wrapped
  /\ wrap_args = [text |-> <<"a", "a", "a", "a", "a">>, width |-> 2]
  /\ wrapped.lines = << <<"a", "a">>, <<"a", "a">>, <<"a">> >>

\* C19: wrap_text never returns zero lines.  For empty or whitespace-only
\* text it returns exactly one empty line (for every width); for a text with
\* at least one token and w >= 1 it returns at least one line and no line
\* it returns is empty.
C19_NeverZeroLines ==
  (wrapped.done /\ wrapped.outcome = "ok") =>
    /\ Len(wrapped.lines) >= 1
    /\ WrapTokens = <<>> => wrapped.lines = << <<>> >>
    /\ (WrapTokens # <<>> /\ wrap_args.width >= 1) =>
         \A i \in 1..Len(wrapped.lines) : wrapped.lines[i] # <<>>

\* A text of two blanks has been wrapped: one empty line.
C19_Witness ==
  /\ wrapped.done /\ wrapped.outcome = "ok"
  /\ wrap_args.text = <<" ", " ">>
  /\ wrapped.lines = << <<>> >>

\* Path normalisation as the resolver's contract describes it: ".." pops a
\* segment, "." is a no-op.
RECURSIVE Collapse(_, _)
Collapse(path, acc) ==
  IF path = <<>> THEN acc
  ELSE IF Head(path) = "." THEN Collapse(Tail(path), acc)
  ELSE IF Head(path) = ".."
       THEN Collapse(Tail(path), IF acc = <<>> THEN acc ELSE SubSeq(acc, 1, Len(acc) - 1))
  ELSE Collapse(Tail(path), Append(acc, Head(path)))

\* The directory that contains a chapter file.
ContainingDir(path) == IF path = <<>> THEN <<>> ELSE SubSeq(path, 1, Len(path) - 1)

\* C20: when a chapter location is known the lookup key of a reference is
\* the reference joined to the chapter's containing directory, with
\* traversal segments collapsed; "../images/cover.png" in chapter
\* "text/ch1.xhtml" gives "images/cover.png".  When no chapter location is
\* known the key is the reference unmodified.
C20_LookupKeyIsNormalized ==
  resolved.done =>
    LET loc == epub_handler.current_chapter_path IN
    resolved.key = IF loc.some THEN Collapse(ContainingDir(loc.v) \o relative_path, <<>>)
                   ELSE relative_path

HandlerOf(by) == IF by = 1 THEN epub_handler ELSE second_handler

\* The first entry, in the table's iteration order, whose stored path ends
\* with the lookup key or with the reference.
RECURSIVE FirstSuffixMatch(_, _, _, _)
FirstSuffixMatch(table, order, key, ref) ==
  IF order = <<>> THEN None
  ELSE IF EndsWith(table[Head(order)], key) \/ EndsWith(table[Head(order)], ref)
       THEN Some(table[Head(order)])
       ELSE FirstSuffixMatch(table, Tail(order), key, ref)

\* The table entry the two tiers select for a reference: its stored path.
SelectedEntry(h, ref) ==
  LET key == resolved_path_of(h, ref) IN
  IF key \in DOMAIN h.doc.resources THEN Some(h.doc.resources[key])
  ELSE FirstSuffixMatch(h.doc.resources, h.doc.key_order, key, ref)

\* C21: two-tier lookup.  If the lookup key is a key of the resource table,
\* that entry is used and the suffix scan is not consulted; otherwise the
\* first entry, in table order, whose stored path ends with the key or with
\* the reference is used; if neither tier matches, the call reports the
\* resource unavailable, the load pushes the empty path for it, and the
\* load still completes.  (Every entry of the book has data.)
C21_TwoTierLookup ==
  /\ \A i \in DOMAIN lookups :
       LET rec == lookups[i]
           e == SelectedEntry(HandlerOf(rec.by), rec.ref)
       IN /\ e.some => (rec.ok /\ rec.content = HandlerOf(rec.by).doc.data[e.v])
          /\ ~e.some => ~rec.ok
          /\ (~rec.ok /\ i <= Len(extracted_images)) => extracted_images[i] = EmptyPath
  /\ Len(lookups) >= Len(image_paths)
       => (phase = "loaded" /\ Len(extracted_images) = Len(image_paths))

\* A load has extracted "cover-a" through the direct lookup and has found
\* nothing for "none.png": a file and the empty path, load complete.
C21_Witness ==
  /\ phase = "loaded"
  /\ image_paths = << <<"cover-a">>, <<"none.png">> >>
  /\ resolved_path_of(epub_handler, <<"cover-a">>) \in DOMAIN epub_handler.doc.resources
  /\ Len(lookups) = 2 /\ lookups[1].content = "a-bytes" /\ ~lookups[2].ok
  /\ extracted_images = << <<"tmp", "cover-a">>, EmptyPath >>

\* C22: on every match, direct or by the suffix scan, the resource is
\* written to a file named after the final path segment of the reference as
\* it appeared in the markup, not after the final segment of the lookup key.
C22_NamedAfterReference ==
  \A i \in DOMAIN lookups :
    lookups[i].ok =>
      /\ FileName(lookups[i].ref).some
      /\ lookups[i].path = <<"tmp", FileName(lookups[i].ref).v>>

\* C23: resolution is deterministic.  Two extract_resource calls for the
\* same reference, against the same chapter location and the same resource
\* table, select the same entry, also when several entries match in the
\* suffix scan: both succeed or both fail, and they write the same bytes.
C23_ResolutionDeterministic ==
  \A i, j \in DOMAIN lookups :
    lookups[i].ref = lookups[j].ref =>
      (lookups[i].ok = lookups[j].ok /\ lookups[i].content = lookups[j].content)

\* C24: every Heading block returned for well-formed markup has a level in
\* 1..6, also when heading elements are nested in one another or hold text
\* after a nested heading has closed.
C24_HeadingLevelInRange ==
  (parsed.done /\ WellFormed(html_content)) =>
    \A i \in 1..Len(parsed.chapter.blocks) :
      parsed.chapter.blocks[i].kind = "Heading" => parsed.chapter.blocks[i].level \in 1..6

IsTextElement(name) == name \in HeadingNames \cup {"p"}
KindOf(name) == IF name = "p" THEN "Paragraph" ELSE "Heading"

KindAndText(name, text) ==
  IF IsTextElement(name) /\ Trim(text) # <<>>
  THEN << [kind |-> KindOf(name), text |-> Trim(text)] >>
  ELSE <<>>

\* What a flat machine with one buffer gives for "<n1>a<n2>b</n2>z</n1>":
\* a start tag of a heading or paragraph n2 drops "a", and the close of n1
\* then sees "z" only; any other n2 leaves the buffer alone, and its text
\* is appended.
ExpectedNested(n1, n2, z) ==
  IF IsTextElement(n2)
  THEN KindAndText(n2, <<"b">>) \o KindAndText(n1, z)
  ELSE KindAndText(n1, <<"a", "b">> \o z)

\* C25: the parser is a flat state machine with one buffer.  Every heading
\* or paragraph start tag resets the buffer, so text before a nested heading
\* or paragraph start tag is dropped; character data of other elements is
\* appended to the open buffer; a heading or paragraph that is not closed
\* before the end of input gives no block made of its text (the result is
\* the fallback paragraph alone).
C25_FlatStateMachine ==
  /\ \A n1 \in NestNames, n2 \in NestNames, z \in {<<"c">>, <<" ">>} :
       (parsed.done /\ html_content = NestedDoc(n1, n2, z) /\ ExpectedNested(n1, n2, z) # <<>>)
         => /\ Len(parsed.chapter.blocks) = Len(ExpectedNested(n1, n2, z))
            /\ \A i \in 1..Len(parsed.chapter.blocks) :
                 [kind |-> parsed.chapter.blocks[i].kind,
                  text |-> parsed.chapter.blocks[i].text] = ExpectedNested(n1, n2, z)[i]
  /\ (parsed.done /\ html_content \in UnclosedDocs)
       => parsed.chapter.blocks = <<Paragraph(Render(html_content))>>

\* "<p>a<h3>b</h3>c</p>" has been processed: "a" is dropped, the heading
\* comes first, the paragraph holds "c".
C25_Witness ==
  /\ parsed.done /\ html_content = NestedDoc("p", "h3", <<"c">>)
  /\ parsed.chapter.blocks = <<Heading(3, <<"b">>), Paragraph(<<"c">>)>>

\* C26: when a chapter load has finished, every available image handle points
\* to a file whose content is the bytes of the resource selected for its own
\* reference, also when two references of the chapter share their final
\* segment: materializing a later image does not change the content behind
\* an earlier handle.
C26_HandlesKeepOwnContent ==
  (phase = "loaded" /\ Len(lookups) = Len(image_paths)) =>
    \A k \in 1..Len(extracted_images) :
      extracted_images[k] # EmptyPath =>
        /\ extracted_images[k][2] \in DOMAIN fs.files
        /\ fs.files[extracted_images[k][2]] = lookups[k].content

\* C28: wrap_text completes without failure for every text and every width
\* of at least 1, also when characters occupy more than one byte: every
\* hard-split position falls on a character boundary.
C28_WrapCompletes ==
  (wrapped.done /\ wrap_args.width >= 1) => wrapped.outcome = "ok"

\* C27: rendering ends for every frame width.  render_chapter gives
\* wrap_text a width of at least 1 for every frame width, 0, 1 and 2
\* included (the subtraction `width - 2` neither goes below zero nor gives
\* 0), and the call returns.
C27_RenderTerminates ==
  rendered.done =>
    /\ rendered.outcome = "ok"
    /\ \A i \in 1..Len(rendered.widths) :
         rendered.widths[i] >= 1 /\ rendered.widths[i] = frame.width - 2


\* The application states one key away from x: the arms of the match on
\* UserAction, and x itself for ViewImage, a key bound to nothing and no
\* key.  A failed next_chapter or previous_chapter ends the program, and so
\* does should_quit at the next turn of the loop: no key is handled after.
UserSteps(x) ==
  IF x.self.should_quit THEN {}
  ELSE {[self |-> r.self, fs |-> r.fs] :
          r \in {r \in {next_chapter(x.self, x.fs), previous_chapter(x.self, x.fs)} : r.ok}}
       \cup {[self |-> s, fs |-> x.fs] :
               s \in {x.self, [x.self EXCEPT !.should_quit = TRUE],
                      scroll_down(x.self), scroll_up(x.self),
                      page_down(x.self, TermHeight \div 2),
                      page_up(x.self, TermHeight \div 2)}}

\* Every state some sequence of user actions leads to.
RECURSIVE ReachableFrom(_, _)
ReachableFrom(seen, frontier) ==
  IF frontier = {} THEN seen
  ELSE LET new == {y \in UNION {UserSteps(x) : x \in frontier} :
                     Followed(y.self.scroll_position)} \ seen
       IN ReachableFrom(seen \cup new, new)

UserReachable == ReachableFrom({[self |-> Self, fs |-> fs]}, {[self |-> Self, fs |-> fs]})

\* C29: the image cursor can reach every image of the current chapter.  For
\* a chapter with k >= 2 image handles and every i < k, some sequence of
\* user actions leads to a state of that chapter where image_index = i and
\* get_current_image_path returns image_handles[i]; a call of
\* get_current_image_path leaves chapter_index, scroll_offset and
\* image_index unchanged and returns nothing when image_index is out of
\* range.  Read over the runs of main (SpecMain).  No run builds an Image
\* block, so extracted_images is empty in every state: the first half holds
\* of no state with two handles, and ViewImage always finds nothing.
C29_CursorStep ==
  /\ Len(extracted_images) >= 2 =>
       \A i \in 0..(Len(extracted_images) - 1) :
         \E x \in UserReachable :
           /\ x.self.current_chapter_index = current_chapter_index
           /\ x.self.extracted_images = extracted_images
           /\ x.self.current_image_index = i
           /\ get_current_image_path(x.self) = Some(extracted_images[i + 1])
  /\ last_op' = "get_current_image_path" =>
       /\ current_chapter_index' = current_chapter_index
       /\ scroll_position' = scroll_position
       /\ current_image_index' = current_image_index
       /\ (last_result' = "None") <=> (current_image_index >= Len(extracted_images))

C29_CursorReachesEveryImage == [][C29_CursorStep]_vars

====
